---- MODULE Spec2Model ----
(***************************************************************************)
(* Verification model of gazelle_cc's C/C++ support code:                  *)
(*   - the #if expression AST and its evaluation (parser/expr.go,          *)
(*     parser/parser.go),                                                  *)
(*   - the platform-condition solver PlatformsForExpr (cc/expr_eval.go),   *)
(*   - the source parser (parser package: token reader, directive          *)
(*     handlers, expression parser), its tokenizer and ParseMacros,        *)
(*   - the table of platform macros (parser package init),                 *)
(*   - the grouping of sources by their includes (cc/source_groups).       *)
(***************************************************************************)
EXTENDS Integers, Sequences, FiniteSets, TLC

VARIABLES
    \* ---- condition solver ----
    expr,            \* the parser.Expr under construction (solver input e)
    platformMacros,  \* map[platform.Platform]platform.Macros (solver input)
    nOps,            \* number of constructors applied on top of the first literal
    phase,           \* "build" while the input is assembled, then the call made
    query,           \* the expression handed to the call
    result,          \* what the call returned
    \* ---- source parser (type parser, type tokenReader) ----
    conditionStack,  \* parser.conditionStack: active branch condition per open group
    exprGroupStack,  \* parser.exprGroupStack: per open group, the branches seen
    lastToken,       \* parser.lastToken
    includes,        \* parser.sourceInfo.Includes
    hasMain,         \* parser.sourceInfo.HasMain
    buf,             \* tokenReader.buf: the one-token look-ahead
    status,          \* "running", or how parse ended: "done", "error", "panic"
    err,             \* the error parse returned ("" for nil), or the panic message
    \* ---- the input of the parser, and bookkeeping about it ----
    nRead,           \* tokens the scanner has delivered so far
    inputEnd,        \* "open", or how the scanner was seen to end: "eof", "ioerr"
    lastChunk,       \* the tokens read by the latest iteration of parse's loop
    openGroups,      \* per open #if group, the raw branch expressions so far
    elseMet,         \* per open #if group, whether its #else has been met
    branchConds,     \* per open #if group, the conditions its branches made active
    vocabulary,      \* the inputs read: "words" (operands are words) or "lines"
    \* ---- the expression parser on its own (type exprParser) ----
    derivation,      \* how the input was derived from the grammar: or-terms of unaries
    nBuilt,          \* number of derivation steps applied on top of the first unary
    exprInput,       \* tokensStream.tokens handed to parseOr
    parsed,          \* what parseOr returned
    reparsed,        \* what parseOr returned for the text of parsed's expression
    \* ---- ParseMacros ----
    defList,         \* the -D style definitions, each a sequence of characters
    macrosOut,       \* what ParseMacros returned ("idle" before the call)
    \* ---- package platform ----
    KnownPlatformMacros,  \* var KnownPlatformMacros, filled by init
    initPc,          \* number of addMacro / addMacros calls init has made
    platformInput,   \* the string handed to Parse: words and "/" separators
    platformParsed,  \* what Parse returned
    \* ---- the source grouper ----
    files,           \* the input files of group_sources
    info,            \* per input file, its includes
    cycleMode,       \* the configured cycle handling: "merge" or "warn"
    sourceGroups,    \* what group_sources returned
    \* ---- the tokenizer under a bufio.Scanner ----
    source,          \* the bytes of the input
    fillEnd,         \* the number of bytes the reader's first Read delivers
    scanTokens,      \* the tokens scanned from the input as the reader delivers it
    wholeTokens      \* the tokens scanned from the input delivered by one Read

solverVars == <<expr, platformMacros, nOps, phase, query, result>>

parserVars == <<conditionStack, exprGroupStack, lastToken, includes, hasMain, buf,
                status, err>>

inputVars == <<nRead, inputEnd, lastChunk, openGroups, elseMet, branchConds, vocabulary>>

exprVars == <<derivation, nBuilt, exprInput, parsed, reparsed>>

macroVars == <<defList, macrosOut>>

platformVars == <<KnownPlatformMacros, initPc, platformInput, platformParsed>>

grouperVars == <<files, info, cycleMode, sourceGroups>>

scannerVars == <<source, fillEnd, scanTokens, wholeTokens>>

auxVars == <<exprVars, macroVars, platformVars, grouperVars, scannerVars>>

vars == <<solverVars, parserVars, inputVars, auxVars>>

-----------------------------------------------------------------------------
(* Bounds *)

\* largest integer used as a macro value or as a literal in a comparison
MaxVal == 1
\* number of Not/And/Or constructors applied on top of the first literal
MaxOps == 2
\* number of tokens in an input of the parser
MaxTokens == 8
\* number of tokens of an #if / #elif expression, line ends not counted
MaxExprToks == 2
\* number of derivation steps that build an input of the expression parser
MaxBuild == 3
\* number of definitions handed to ParseMacros
MaxDefs == 2
\* number of words and separators in a string handed to platform.Parse
MaxPieces == 4
\* number of includes in the input of group_sources, all files together
MaxIncludes == 3
\* number of bytes in an input of the tokenizer
MaxBytes == 4

-----------------------------------------------------------------------------
(* Expression AST: parser.Expr, parser.Value *)

Ident(n) == [kind |-> "Ident", name |-> n]
Constant(v) == [kind |-> "Constant", v |-> v]

Defined(n) == [tag |-> "Defined", name |-> n]
Not(x) == [tag |-> "Not", x |-> x]
And(l, r) == [tag |-> "And", l |-> l, r |-> r]
Or(l, r) == [tag |-> "Or", l |-> l, r |-> r]
Compare(l, op, r) == [tag |-> "Compare", left |-> l, op |-> op, right |-> r]

\* the nil interface value of type parser.Expr
NilExpr == [tag |-> "nil"]

CompareOps == {"==", "!=", "<", "<=", ">", ">="}

\* a negation that mirrors the order operators: < to >, <= to >=
Negate_SwapsDirection(c) ==
    Compare(c.left,
            CASE c.op = "==" -> "!="
              [] c.op = "!=" -> "=="
              [] c.op = "<"  -> ">"
              [] c.op = "<=" -> ">="
              [] c.op = ">"  -> "<"
              [] c.op = ">=" -> "<="
              [] OTHER       -> "panic",
            c.right)

\* func (expr Compare) Negate() Compare; an operator outside the six panics
Negate(c) ==
    Compare(c.left,
            CASE c.op = "==" -> "!="
              [] c.op = "!=" -> "=="
              [] c.op = "<"  -> ">="
              [] c.op = "<=" -> ">"
              [] c.op = ">"  -> "<="
              [] c.op = ">=" -> "<"
              [] OTHER       -> "panic",
            c.right)

-----------------------------------------------------------------------------
(* Evaluation: Eval / Resolve. platform.Macros is a function from the      *)
(* defined macro names to their integer values.                            *)

\* func (value Ident) Resolve / func (value Constant) Resolve: the value and
\* whether it is defined; a missing map key reads as Go's zero value 0
Resolve(value, macros) ==
    IF value.kind = "Ident"
    THEN IF value.name \in DOMAIN macros
         THEN [v |-> macros[value.name], defined |-> TRUE]
         ELSE [v |-> 0, defined |-> FALSE]
    ELSE [v |-> value.v, defined |-> TRUE]

ApplyOp(op, lv, rv) ==
    CASE op = "==" -> lv = rv
      [] op = "!=" -> lv # rv
      [] op = "<"  -> lv < rv
      [] op = "<=" -> lv <= rv
      [] op = ">"  -> lv > rv
      [] op = ">=" -> lv >= rv
      [] OTHER     -> FALSE

\* an evaluation in which a comparison on an undefined macro is false
CompareEval_UndefinedIsFalse(c, macros) ==
    LET l == Resolve(c.left, macros)
        r == Resolve(c.right, macros)
    IN  l.defined /\ r.defined /\ ApplyOp(c.op, l.v, r.v)

\* func (expr Compare) Eval
CompareEval(c, macros) ==
    LET lv == Resolve(c.left, macros).v
        rv == Resolve(c.right, macros).v
    IN  ApplyOp(c.op, lv, rv)

RECURSIVE Eval(_, _)
\* func (expr Defined|Compare|Not|And|Or) Eval
Eval(e, macros) ==
    CASE e.tag = "Defined" -> e.name \in DOMAIN macros
      [] e.tag = "Compare" -> CompareEval(e, macros)
      [] e.tag = "Not"     -> ~Eval(e.x, macros)
      [] e.tag = "And"     -> Eval(e.l, macros) /\ Eval(e.r, macros)
      [] e.tag = "Or"      -> Eval(e.l, macros) \/ Eval(e.r, macros)

-----------------------------------------------------------------------------
(* Platforms and their order *)

Platform(os, arch) == [OS |-> os, Arch |-> arch]

\* position of each identifier used here in Go's string order (cmp.Compare)
StrRank(s) ==
    CASE s = ""        -> 0
      [] s = "aarch64" -> 1
      [] s = "linux"   -> 2
      [] s = "windows" -> 3
      [] s = "x86_64"  -> 4

StrCompare(a, b) ==
    IF StrRank(a) < StrRank(b) THEN -1
    ELSE IF StrRank(a) > StrRank(b) THEN 1 ELSE 0

\* func ComparePlatform: first by OS, then by Arch
ComparePlatform(a, b) ==
    IF StrCompare(a.OS, b.OS) # 0
    THEN StrCompare(a.OS, b.OS)
    ELSE StrCompare(a.Arch, b.Arch)

RECURSIVE SortPlatforms(_)
\* slices.SortFunc(result, platform.ComparePlatform) on the values of a set
SortPlatforms(S) ==
    IF S = {} THEN <<>>
    ELSE LET first == CHOOSE p \in S : \A q \in S : ComparePlatform(p, q) <= 0
         IN  <<first>> \o SortPlatforms(S \ {first})

-----------------------------------------------------------------------------
(* Normalisation: toNegationNormalForm, exprToDnf, extractMacro *)

RECURSIVE ToNegationNormalForm_KeepsConnective(_)
\* a normal form that pushes Not inwards without swapping And and Or
ToNegationNormalForm_KeepsConnective(e) ==
    CASE e.tag = "Not" ->
            LET inner == e.x IN
            CASE inner.tag = "Not" -> ToNegationNormalForm_KeepsConnective(inner.x)
              [] inner.tag = "And" ->
                    And(ToNegationNormalForm_KeepsConnective(Not(inner.l)),
                        ToNegationNormalForm_KeepsConnective(Not(inner.r)))
              [] inner.tag = "Or" ->
                    Or(ToNegationNormalForm_KeepsConnective(Not(inner.l)),
                       ToNegationNormalForm_KeepsConnective(Not(inner.r)))
              [] OTHER -> Not(ToNegationNormalForm_KeepsConnective(inner))
      [] e.tag = "And" -> And(ToNegationNormalForm_KeepsConnective(e.l),
                              ToNegationNormalForm_KeepsConnective(e.r))
      [] e.tag = "Or" -> Or(ToNegationNormalForm_KeepsConnective(e.l),
                            ToNegationNormalForm_KeepsConnective(e.r))
      [] OTHER -> e

RECURSIVE ToNegationNormalForm(_)
\* func toNegationNormalForm
ToNegationNormalForm(e) ==
    CASE e.tag = "Not" ->
            LET inner == e.x IN
            CASE inner.tag = "Not" -> ToNegationNormalForm(inner.x)
              [] inner.tag = "And" ->
                    Or(ToNegationNormalForm(Not(inner.l)),
                       ToNegationNormalForm(Not(inner.r)))
              [] inner.tag = "Or" ->
                    And(ToNegationNormalForm(Not(inner.l)),
                        ToNegationNormalForm(Not(inner.r)))
              [] OTHER -> Not(ToNegationNormalForm(inner))
      [] e.tag = "And" -> And(ToNegationNormalForm(e.l), ToNegationNormalForm(e.r))
      [] e.tag = "Or" -> Or(ToNegationNormalForm(e.l), ToNegationNormalForm(e.r))
      [] OTHER -> e

\* func extractValueMacro
ExtractValueMacro(v) ==
    IF v.kind = "Ident" THEN [name |-> v.name, ok |-> TRUE, panic |-> FALSE]
    ELSE IF v.kind = "Constant" THEN [name |-> "", ok |-> FALSE, panic |-> FALSE]
    ELSE [name |-> "", ok |-> FALSE, panic |-> TRUE]

\* func extractMacro; log.Panicf on anything but Defined and Compare
ExtractMacro(e) ==
    CASE e.tag = "Defined" -> [name |-> e.name, ok |-> TRUE, panic |-> FALSE]
      [] e.tag = "Compare" ->
            LET l == ExtractValueMacro(e.left)
                r == ExtractValueMacro(e.right)
            IN  CASE l.ok /\ ~r.ok -> [name |-> l.name, ok |-> TRUE, panic |-> FALSE]
                  [] ~l.ok /\ r.ok -> [name |-> r.name, ok |-> TRUE, panic |-> FALSE]
                  [] l.ok /\ r.ok /\ l.name = r.name ->
                        [name |-> l.name, ok |-> TRUE, panic |-> FALSE]
                  [] OTHER -> [name |-> "", ok |-> FALSE, panic |-> FALSE]
      [] OTHER -> [name |-> "", ok |-> FALSE, panic |-> TRUE]

\* type macroTest struct { Macro; Negated; Comparsion *parser.Compare }
MacroTest(macro, negated, comparison) ==
    [Macro |-> macro, Negated |-> negated, Comparsion |-> comparison]

\* the nil *parser.Compare
NilCompare == [tag |-> "nil"]

RECURSIVE ExprToDnf_NoNegate(_)
\* a DNF that keeps the comparison under a Not as it is
ExprToDnf_NoNegate(e) ==
    CASE e.tag = "And" ->
            LET left == ExprToDnf_NoNegate(e.l)
                right == ExprToDnf_NoNegate(e.r)
            IN  [k \in 1..(Len(left) * Len(right)) |->
                    left[((k - 1) \div Len(right)) + 1]
                        \o right[((k - 1) % Len(right)) + 1]]
      [] e.tag = "Or" -> ExprToDnf_NoNegate(e.l) \o ExprToDnf_NoNegate(e.r)
      [] e.tag = "Not" ->
            IF e.x.tag = "Compare"
            THEN << <<MacroTest("", FALSE, e.x)>> >>
            ELSE << <<MacroTest(ExtractMacro(e.x).name, TRUE, NilCompare)>> >>
      [] e.tag = "Compare" -> << <<MacroTest("", FALSE, e)>> >>
      [] OTHER -> << <<MacroTest(ExtractMacro(e).name, FALSE, NilCompare)>> >>

RECURSIVE ExprToDnf(_)
\* func exprToDnf: a sequence of andGroups, each a sequence of macroTests;
\* the And case appends lt ++ rt for every lt of left (outer loop) and every
\* rt of right (inner loop)
ExprToDnf(e) ==
    CASE e.tag = "And" ->
            LET left == ExprToDnf(e.l)
                right == ExprToDnf(e.r)
            IN  [k \in 1..(Len(left) * Len(right)) |->
                    left[((k - 1) \div Len(right)) + 1]
                        \o right[((k - 1) % Len(right)) + 1]]
      [] e.tag = "Or" -> ExprToDnf(e.l) \o ExprToDnf(e.r)
      [] e.tag = "Not" ->
            IF e.x.tag = "Compare"
            THEN << <<MacroTest("", FALSE, Negate(e.x))>> >>
            ELSE << <<MacroTest(ExtractMacro(e.x).name, TRUE, NilCompare)>> >>
      [] e.tag = "Compare" -> << <<MacroTest("", FALSE, e)>> >>
      [] OTHER -> << <<MacroTest(ExtractMacro(e).name, FALSE, NilCompare)>> >>

RECURSIVE DnfPanics(_)
\* whether exprToDnf reaches the log.Panicf of extractMacro on e
DnfPanics(e) ==
    CASE e.tag = "And" -> DnfPanics(e.l) \/ DnfPanics(e.r)
      [] e.tag = "Or" -> DnfPanics(e.l) \/ DnfPanics(e.r)
      [] e.tag = "Not" -> ExtractMacro(e.x).panic
      [] e.tag = "Compare" -> FALSE
      [] OTHER -> ExtractMacro(e).panic

\* func toDNF
ToDNF(e) == ExprToDnf(ToNegationNormalForm(e))

-----------------------------------------------------------------------------
(* The solver: PlatformsForExpr *)

\* func platformsForMacro
PlatformsForMacro(macro, pm) == {p \in DOMAIN pm : macro \in DOMAIN pm[p]}

RECURSIVE EvalConjunct(_, _, _, _)
\* the inner loop of PlatformsForExpr over the literals conjunct[i..]
EvalConjunct(conjunct, i, termSet, pm) ==
    IF i > Len(conjunct) THEN termSet
    ELSE LET lit == conjunct[i] IN
         IF lit.Comparsion # NilCompare
         THEN \* slow path, then `continue`
              EvalConjunct(conjunct, i + 1,
                           {p \in termSet :
                               CompareEval(lit.Comparsion, pm[p]) = ~lit.Negated},
                           pm)
         ELSE \* fast path
              LET macroSet == PlatformsForMacro(lit.Macro, pm)
                  next == IF lit.Negated THEN termSet \ macroSet
                          ELSE termSet \cap macroSet
              IN  IF next = {} THEN next     \* early exit: `break`
                  ELSE EvalConjunct(conjunct, i + 1, next, pm)

\* a []platform.Platform value: the nil slice, or a (possibly empty) list
NilSlice == [isNil |-> TRUE, items |-> <<>>, panic |-> FALSE]
Slice(items) == [isNil |-> FALSE, items |-> items, panic |-> FALSE]
Panicked == [isNil |-> FALSE, items |-> <<>>, panic |-> TRUE]

\* a solver that returns matched.Values() as it is: nil when nothing matched
PlatformsForExpr_NilWhenNoMatch(e, pm) ==
    IF e = NilExpr THEN NilSlice
    ELSE LET dnf == ToDNF(e)
             matched == UNION {EvalConjunct(dnf[k], 1, DOMAIN pm, pm) : k \in DOMAIN dnf}
         IN  IF matched = {} THEN NilSlice ELSE Slice(SortPlatforms(matched))

\* func PlatformsForExpr. matched.Values() of an empty set may be the nil
\* slice; the code replaces it by an empty one before sorting
PlatformsForExpr(e, pm) ==
    IF e = NilExpr THEN NilSlice
    ELSE IF DnfPanics(ToNegationNormalForm(e)) THEN Panicked
    ELSE LET dnf == ToDNF(e)
             enabledPlatforms == DOMAIN pm
             matched == UNION {EvalConjunct(dnf[k], 1, enabledPlatforms, pm) :
                                  k \in DOMAIN dnf}
             values == IF matched = {} THEN NilSlice ELSE Slice(SortPlatforms(matched))
             res == IF values.isNil THEN Slice(<<>>) ELSE values
         IN  res

-----------------------------------------------------------------------------
(* Tokens. A token is a string; the string tests the parser makes on       *)
(* tokens are tables over the tokens that occur in the inputs.             *)

\* const EOL
EOL == "<EOL>"
Backslash == "\\"
\* no token: the empty tokenReader.buf, or the token of a failed read
NoToken == "<none>"

IfDirectives == {"#if", "#ifdef", "#ifndef"}
ElifDirectives == {"#elif", "#elifdef", "#elifndef"}

\* strings.HasPrefix(tok, "#")
HashTokens == IfDirectives \cup ElifDirectives \cup {"#include", "#else", "#endif", "#define"}

\* strings.Contains(include, "\"")
HasQuote(tok) == tok \in {"\"a.h\"", "\"a.h", "a.h\""}

\* strings.Trim(include, "\"")
TrimQuotes(tok) == IF tok \in {"\"a.h\"", "\"a.h", "a.h\""} THEN "a.h" ELSE tok

\* macroIdentifierRegex.MatchString(token)
IsIdentifier(tok) == tok \in {"A", "B", "defined", "int", "main"}

\* func parseIntLiteral, on the tokens that match parsableIntegerRegex
ParseIntLiteral(tok) ==
    CASE tok = "0" -> [ok |-> TRUE, v |-> 0]
      [] tok = "1" -> [ok |-> TRUE, v |-> 1]
      [] OTHER -> [ok |-> FALSE, v |-> 0]

\* func isBinaryCompareOperator
IsBinaryCompareOperator(tok) == tok \in {"==", "!=", "<", "<=", ">", ">="}

-----------------------------------------------------------------------------
(* Token reader: type tokenReader over a bufio.Scanner. The scanner is the *)
(* token list toks read from position pos on; `end` says what follows the  *)
(* list: "eof", "ioerr" (the underlying reader failed), or "open" when the *)
(* rest of the input is not fixed yet, in which case a read past the list  *)
(* marks the reader as starved.                                            *)

\* a local variable of the code: F applied to the value v it holds
Let(v, F(_)) == F(v)

Reader(toks, b, end) ==
    [toks |-> toks, pos |-> 1, buf |-> b, end |-> end, past |-> FALSE]

Starved(r) == r.past /\ r.end = "open"

\* func (tr *tokenReader) fetch
Fetch(r) ==
    IF r.buf # NoToken
    THEN [tok |-> r.buf, ok |-> TRUE, r |-> [r EXCEPT !.buf = NoToken]]
    ELSE IF r.pos <= Len(r.toks)
    THEN [tok |-> r.toks[r.pos], ok |-> TRUE, r |-> [r EXCEPT !.pos = r.pos + 1]]
    ELSE [tok |-> NoToken, ok |-> FALSE, r |-> [r EXCEPT !.past = TRUE]]

RECURSIVE NextInternal(_, _)
\* func (tr *tokenReader) nextInternal
NextInternal(r, keepEOL) ==
    Let(Fetch(r), LAMBDA f :
        IF ~f.ok THEN f
        ELSE IF f.tok = EOL /\ ~keepEOL THEN NextInternal(f.r, keepEOL)
        ELSE f)

\* func (tr *tokenReader) next
TrNext(r) == NextInternal(r, FALSE)

\* func (tr *tokenReader) peekInternal
PeekInternal(r, keepEOL) ==
    IF r.buf # NoToken
    THEN IF ~keepEOL /\ r.buf = EOL
         THEN TrNext(r)
         ELSE [tok |-> r.buf, ok |-> TRUE, r |-> r]
    ELSE Let(NextInternal(r, keepEOL), LAMBDA n :
             IF ~n.ok THEN n
             ELSE [tok |-> n.tok, ok |-> TRUE, r |-> [n.r EXCEPT !.buf = n.tok]])

\* func (tr *tokenReader) peek
TrPeek(r) == PeekInternal(r, FALSE)

\* tr.scanner.Err(): nil unless the underlying reader failed
ScannerErr(r) == IF r.end = "ioerr" THEN "read error" ELSE ""

-----------------------------------------------------------------------------
(* Expression parser: type exprParser over a tokensStream (tokens ts, next *)
(* position idx, counted from 1). A result is ok with an expression and    *)
(* the position reached, an error, or a panic.                             *)

ExprOk(e, idx) == [kind |-> "ok", e |-> e, idx |-> idx, msg |-> ""]
ExprErr(msg) == [kind |-> "err", e |-> NilExpr, idx |-> 0, msg |-> msg]
ExprPanic(msg) == [kind |-> "panic", e |-> NilExpr, idx |-> 0, msg |-> msg]

\* func (ts *tokensStream) peek
TsPeek(ts, idx, s) == idx <= Len(ts) /\ ts[idx] = s

\* func interpretValue
InterpretValue(token) ==
    IF IsIdentifier(token) THEN [ok |-> TRUE, v |-> Ident(token)]
    ELSE IF ParseIntLiteral(token).ok
    THEN [ok |-> TRUE, v |-> Constant(ParseIntLiteral(token).v)]
    ELSE [ok |-> FALSE, v |-> Constant(0)]

\* the comparison branch of parseUnary: token at idx, operator at idx + 1;
\* ts.next() panics at the end of the tokens
ParseComparison(ts, idx) ==
    Let(InterpretValue(ts[idx]), LAMBDA lValue :
        IF ~lValue.ok
        THEN ExprErr("neither a valid identifier of integer constant")
        ELSE IF idx + 2 > Len(ts)
        THEN ExprPanic("unexpected EOL in expression")
        ELSE Let(InterpretValue(ts[idx + 2]), LAMBDA rValue :
                 IF ~rValue.ok
                 THEN ExprErr("neither a valid identifier of integer constant")
                 ELSE ExprOk(Compare(lValue.v, ts[idx + 1], rValue.v), idx + 3)))

RECURSIVE ParseOr(_, _), ParseOrLoop(_, _), ParseAnd(_, _), ParseAndLoop(_, _),
          ParseUnary(_, _)

\* func (ep *exprParser) parseUnary; ts.next() panics at the end of the tokens
ParseUnary(ts, idx) ==
    IF TsPeek(ts, idx, "!")
    THEN Let(ParseUnary(ts, idx + 1), LAMBDA u :
             IF u.kind # "ok" THEN u ELSE ExprOk(Not(u.e), u.idx))
    ELSE IF TsPeek(ts, idx, "(")
    THEN Let(ParseOr(ts, idx + 1), LAMBDA o :
             IF o.kind # "ok" THEN o
             ELSE IF TsPeek(ts, o.idx, ")") THEN ExprOk(o.e, o.idx + 1)
             ELSE ExprErr("expected ), got something else"))
    ELSE IF TsPeek(ts, idx, "defined")
    THEN IF TsPeek(ts, idx + 1, "(")
         THEN IF idx + 2 > Len(ts) THEN ExprPanic("unexpected EOL in expression")
              ELSE IF TsPeek(ts, idx + 3, ")")
              THEN ExprOk(Defined(ts[idx + 2]), idx + 4)
              ELSE ExprErr("expected ), got something else")
         ELSE IF idx + 1 > Len(ts) THEN ExprPanic("unexpected EOL in expression")
              ELSE ExprOk(Defined(ts[idx + 1]), idx + 2)
    ELSE IF idx > Len(ts) THEN ExprPanic("unexpected EOL in expression")
    ELSE IF idx + 1 <= Len(ts) /\ IsBinaryCompareOperator(ts[idx + 1])
    THEN ParseComparison(ts, idx)
    ELSE ExprOk(Compare(Ident(ts[idx]), "!=", Constant(0)), idx + 1)

\* the loop `for ts.peek("&&")` of parseAnd, with `left` parsed up to left.idx
ParseAndLoop(ts, left) ==
    IF TsPeek(ts, left.idx, "&&")
    THEN Let(ParseUnary(ts, left.idx + 1), LAMBDA right :
             IF right.kind # "ok" THEN right
             ELSE ParseAndLoop(ts, ExprOk(And(left.e, right.e), right.idx)))
    ELSE left

\* func (ep *exprParser) parseAnd
ParseAnd(ts, idx) ==
    Let(ParseUnary(ts, idx), LAMBDA left :
        IF left.kind # "ok" THEN left ELSE ParseAndLoop(ts, left))

RECURSIVE ParseOrLoop_UnaryOperand(_, _)
\* a loop that reads one unary, not a whole and-term, after each `||`
ParseOrLoop_UnaryOperand(ts, left) ==
    IF TsPeek(ts, left.idx, "||")
    THEN Let(ParseUnary(ts, left.idx + 1), LAMBDA right :
             IF right.kind # "ok" THEN right
             ELSE ParseOrLoop_UnaryOperand(ts, ExprOk(Or(left.e, right.e), right.idx)))
    ELSE left

\* the loop `for ts.peek("||")` of parseOr
ParseOrLoop(ts, left) ==
    IF TsPeek(ts, left.idx, "||")
    THEN Let(ParseAnd(ts, left.idx + 1), LAMBDA right :
             IF right.kind # "ok" THEN right
             ELSE ParseOrLoop(ts, ExprOk(Or(left.e, right.e), right.idx)))
    ELSE left

\* func (ep *exprParser) parseOr
ParseOr(ts, idx) ==
    Let(ParseAnd(ts, idx), LAMBDA left :
        IF left.kind # "ok" THEN left ELSE ParseOrLoop(ts, left))

RECURSIVE CollectExpr(_, _)
\* the `collect` loop of parser.parseExpr: ts holds the tokens gathered so
\* far; the result is the reader reached and the tokens, or ok = FALSE when
\* the scanner ended before the line did
CollectExpr(r, ts) ==
    Let(NextInternal(r, TRUE), LAMBDA n :
        IF ~n.ok THEN [ok |-> FALSE, r |-> n.r, ts |-> ts]
        ELSE IF n.tok = Backslash
        THEN Let(TrPeek(n.r), LAMBDA pk :
                 IF pk.ok /\ pk.tok = EOL
                 THEN CollectExpr(TrNext(pk.r).r, ts)
                 ELSE CollectExpr(pk.r, ts))
        ELSE IF n.tok = EOL THEN [ok |-> TRUE, r |-> n.r, ts |-> ts]
        ELSE CollectExpr(n.r, Append(ts, n.tok)))

\* func (p *parser) parseExpr
ParseExpr(r) ==
    Let(CollectExpr(r, <<>>), LAMBDA c :
        IF ~c.ok THEN [res |-> ExprErr("expected more tokens"), r |-> c.r]
        ELSE [res |-> ParseOr(c.ts, 1), r |-> c.r])

-----------------------------------------------------------------------------
(* The parser: type parser. p is the record of its fields; a handler       *)
(* returns the parser and reader it leaves, the error it returns ("" for   *)
(* nil) and the panic it raises ("" for none).                             *)

Ret(p, r, e, pn) == [p |-> p, r |-> r, err |-> e, panic |-> pn]

RECURSIVE GuardLoop(_, _, _)
\* the loop of currentGuard: acc = And{acc, conditionStack[i]} for i upwards
GuardLoop(stack, i, acc) ==
    IF i > Len(stack) THEN acc ELSE GuardLoop(stack, i + 1, And(acc, stack[i]))

RECURSIVE GuardLoop_RightNested(_, _, _)
\* a loop that folds the stack from its top downwards
GuardLoop_RightNested(stack, i, acc) ==
    IF i < 1 THEN acc ELSE GuardLoop_RightNested(stack, i - 1, And(stack[i], acc))

\* a guard nested to the right: And{c1, And{c2, c3}}
CurrentGuard_RightNested(stack) ==
    IF Len(stack) = 0 THEN NilExpr
    ELSE GuardLoop_RightNested(stack, Len(stack) - 1, stack[Len(stack)])

\* func (p *parser) currentGuard
CurrentGuard(stack) ==
    IF Len(stack) = 0 THEN NilExpr ELSE GuardLoop(stack, 2, stack[1])

\* func (p *parser) pushCondition
PushCondition(p, e) == [p EXCEPT !.conditionStack = Append(@, e)]

\* func (p *parser) popCondition: the parser left, and whether it popped
PopCondition(p) ==
    IF Len(p.conditionStack) = 0 THEN [p |-> p, ok |-> FALSE]
    ELSE [p |-> [p EXCEPT !.conditionStack = SubSeq(@, 1, Len(@) - 1)], ok |-> TRUE]

\* func (p *parser) currentGroup: nil when no group is open
CurrentGroup(p) ==
    IF Len(p.exprGroupStack) = 0 THEN [isNil |-> TRUE, xs |-> <<>>]
    ELSE [isNil |-> FALSE, xs |-> p.exprGroupStack[Len(p.exprGroupStack)]]

\* func (p *parser) pushNewGroup
PushNewGroup(p, e) == [p EXCEPT !.exprGroupStack = Append(@, <<e>>)]

\* func (p *parser) appendToCurrentGroup; it panics when no group is open
AppendToCurrentGroup(p, e) ==
    [p EXCEPT !.exprGroupStack[Len(p.exprGroupStack)] = Append(@, e)]

\* func (p *parser) popGroup
PopGroup_KeepsGroup(p) == p

PopGroup(p) ==
    IF Len(p.exprGroupStack) = 0 THEN p
    ELSE [p EXCEPT !.exprGroupStack = SubSeq(@, 1, Len(@) - 1)]

RECURSIVE OrAllLoop(_, _, _)
\* the loop of orAll: acc = Or{acc, xs[i]} for i upwards
OrAllLoop(xs, i, acc) ==
    IF i > Len(xs) THEN acc ELSE OrAllLoop(xs, i + 1, Or(acc, xs[i]))

\* func orAll, for a non-empty xs; it panics on an empty one
OrAll(xs) == OrAllLoop(xs, 2, xs[1])

RECURSIVE ParseIdent(_)
\* func (p *parser) parseIdent
ParseIdent(r) ==
    Let(TrNext(r), LAMBDA n :
        IF ~n.ok THEN [ok |-> FALSE, ident |-> "", r |-> n.r]
        ELSE IF n.tok = Backslash THEN ParseIdent(n.r)
        ELSE [ok |-> TRUE, ident |-> n.tok, r |-> n.r])

\* type Include
Include(path, isSystem, cond) ==
    [Path |-> path, IsSystemInclude |-> isSystem, Condition |-> cond]

\* p with one more include, guarded by the current guard
AddInclude(p, path, isSystem) ==
    [p EXCEPT !.includes =
        Append(@, Include(path, isSystem, CurrentGuard(p.conditionStack)))]

\* a handler that returns an error for an operand without a double quote
HandleInclude_RejectsUnquoted(p, r) ==
    Let(TrNext(r), LAMBDA n1 :
        IF ~n1.ok THEN Ret(p, n1.r, "unexpected EOF after #include", "")
        ELSE IF n1.tok = "<"
        THEN Let(TrNext(n1.r), LAMBDA n2 :
                 IF ~n2.ok
                 THEN Ret(p, n2.r, "unexpected EOF in bracketed include", "")
                 ELSE Ret(AddInclude(p, TrimQuotes(n2.tok), TRUE), n2.r, "", ""))
        ELSE IF ~HasQuote(n1.tok) THEN Ret(p, n1.r, "malformed #include", "")
        ELSE Ret(AddInclude(p, TrimQuotes(n1.tok), FALSE), n1.r, "", ""))

\* a handler that takes only the `<` form for a system include
HandleInclude_BracketOnly(p, r) ==
    Let(TrNext(r), LAMBDA n1 :
        IF ~n1.ok THEN Ret(p, n1.r, "unexpected EOF after #include", "")
        ELSE IF n1.tok = "<"
        THEN Let(TrNext(n1.r), LAMBDA n2 :
                 IF ~n2.ok
                 THEN Ret(p, n2.r, "unexpected EOF in bracketed include", "")
                 ELSE Ret(AddInclude(p, TrimQuotes(n2.tok), TRUE), n2.r, "", ""))
        ELSE Ret(AddInclude(p, TrimQuotes(n1.tok), FALSE), n1.r, "", ""))

\* func (p *parser) handleInclude
HandleInclude(p, r) ==
    Let(TrNext(r), LAMBDA n1 :
        IF ~n1.ok THEN Ret(p, n1.r, "unexpected EOF after #include", "")
        ELSE IF n1.tok = "<"
        THEN Let(TrNext(n1.r), LAMBDA n2 :
                 IF ~n2.ok
                 THEN Ret(p, n2.r, "unexpected EOF in bracketed include", "")
                 ELSE Ret(AddInclude(p, TrimQuotes(n2.tok), TRUE), n2.r, "", ""))
        ELSE Ret(AddInclude(p, TrimQuotes(n1.tok), ~HasQuote(n1.tok)), n1.r, "", ""))

\* the expression an #ifdef / #elifdef (negated: #ifndef / #elifndef) stands for
DefinedExpr(ident, negated) ==
    IF negated THEN Not(Defined(ident)) ELSE Defined(ident)

\* func (p *parser) handleIfdef
HandleIfdef(p, r, kind) ==
    Let(ParseIdent(r), LAMBDA id :
        IF ~id.ok THEN Ret(p, id.r, "expected identifier, found EOF", "")
        ELSE Let(DefinedExpr(id.ident, kind = "#ifndef"), LAMBDA e :
                 Ret(PushNewGroup(PushCondition(p, e), e), id.r, "", "")))

\* func (p *parser) handleIf
HandleIf(p, r) ==
    Let(ParseExpr(r), LAMBDA x :
        IF x.res.kind = "panic" THEN Ret(p, x.r, "", x.res.msg)
        ELSE IF x.res.kind = "err" THEN Ret(p, x.r, x.res.msg, "")
        ELSE Ret(PushNewGroup(PushCondition(p, x.res.e), x.res.e), x.r, "", ""))

\* the end of handleElse, with the condition popped and the group cur
PushElse(p, r, cur) ==
    IF Len(cur.xs) = 0 THEN Ret(p, r, "", "empty orAll")
    ELSE Let(Not(OrAll(cur.xs)), LAMBDA neg :
             Ret(AppendToCurrentGroup(PushCondition(p, neg), neg), r, "", ""))

\* a handler that does not return early when no group is open
HandleElse_NoStrayCheck(p, r) ==
    PushElse(PopCondition(p).p, r, CurrentGroup(p))

\* func (p *parser) handleElse; popCondition runs before the test of cur
HandleElse(p, r) ==
    IF ~PopCondition(p).ok \/ CurrentGroup(p).isNil
    THEN Ret(PopCondition(p).p, r, "", "")
    ELSE PushElse(PopCondition(p).p, r, CurrentGroup(p))

\* the switch of handleElif: the expression of the directive kind
ElifExpr(r, kind) ==
    IF kind = "#elif" THEN ParseExpr(r)
    ELSE Let(ParseIdent(r), LAMBDA id :
             IF ~id.ok
             THEN [res |-> ExprErr("expected identifier, found EOF"), r |-> id.r]
             ELSE [res |-> ExprOk(DefinedExpr(id.ident, kind = "#elifndef"), 0),
                   r |-> id.r])

\* the end of handleElif, with the condition popped, the group cur and the
\* outcome x of reading the directive's expression
PushElif_RawBranch(p, cur, x) ==
    IF x.res.kind = "panic" THEN Ret(p, x.r, "", x.res.msg)
    ELSE IF x.res.kind = "err" THEN Ret(p, x.r, x.res.msg, "")
    ELSE Ret(AppendToCurrentGroup(PushCondition(p, x.res.e), x.res.e), x.r, "", "")

PushElif(p, cur, x) ==
    IF x.res.kind = "panic" THEN Ret(p, x.r, "", x.res.msg)
    ELSE IF x.res.kind = "err" THEN Ret(p, x.r, x.res.msg, "")
    ELSE IF Len(cur.xs) = 0 THEN Ret(p, x.r, "", "empty orAll")
    ELSE Ret(AppendToCurrentGroup(
                 PushCondition(p, And(x.res.e, Not(OrAll(cur.xs)))), x.res.e),
             x.r, "", "")

\* func (p *parser) handleElif
HandleElif(p, r, kind) ==
    IF ~PopCondition(p).ok \/ CurrentGroup(p).isNil
    THEN Ret(PopCondition(p).p, r, "", "")
    ELSE PushElif(PopCondition(p).p, CurrentGroup(p), ElifExpr(r, kind))

\* func (p *parser) parseDirective
ParseDirective(p, r, tok) ==
    CASE tok = "#include" -> HandleInclude(p, r)
      [] tok \in {"#ifdef", "#ifndef"} -> HandleIfdef(p, r, tok)
      [] tok = "#if" -> HandleIf(p, r)
      [] tok = "#else" -> HandleElse(p, r)
      [] tok \in ElifDirectives -> HandleElif(p, r, tok)
      [] tok = "#endif" -> Ret(PopGroup(PopCondition(p).p), r, "", "")
      [] OTHER -> Ret(p, r, "", "")

\* how one iteration of the loop of parse leaves the parser
Outcome(p, r, st, e) == [p |-> p, r |-> r, status |-> st, err |-> e]

\* parse's `if err := p.parseDirective(tok); err != nil`, for the result d
AfterDirective(d) ==
    IF d.panic # "" THEN Outcome(d.p, d.r, "panic", d.panic)
    ELSE IF d.err # "" THEN Outcome(d.p, d.r, "error", d.err)
    ELSE Outcome(d.p, d.r, "running", "")

\* parse's `if tok == "main"`, for the result m of the read that follows
AfterMain(p, prev, m) ==
    Outcome([p EXCEPT !.hasMain = @ \/ (m.ok /\ m.tok = "(" /\ prev = "int")],
            m.r, "running", "")

\* the body of the `for` loop of func parse past its first read n
AfterRead(p, n) ==
    IF ~n.ok
    THEN Outcome(p, n.r, IF ScannerErr(n.r) = "" THEN "done" ELSE "error",
                 ScannerErr(n.r))
    ELSE IF n.tok \in HashTokens
    THEN AfterDirective(ParseDirective([p EXCEPT !.lastToken = n.tok], n.r, n.tok))
    ELSE IF n.tok = "main"
    THEN AfterMain([p EXCEPT !.lastToken = n.tok], p.lastToken, TrNext(n.r))
    ELSE Outcome([p EXCEPT !.lastToken = n.tok], n.r, "running", "")

\* one iteration of the `for` loop of func parse
ParseIteration(p, r) == AfterRead(p, TrNext(r))

-----------------------------------------------------------------------------
(* Inputs of the parser: token sequences of at most MaxTokens tokens. The  *)
(* input is fixed as it is read: an iteration of parse's loop gets the     *)
(* tokens it asks for, each drawn from the tokens that fit the place. Line *)
(* ends are part of an input where the parser looks at them, in the        *)
(* expression of an #if / #elif; the line ends it skips are left out.      *)

\* tokens read at the top of parse's loop
MainTokens == HashTokens \cup {"int", "main"}
\* tokens following #include
IncludeTokens == {"\"a.h\"", "\"a.h", "a.h\"", "<", "A"}
\* tokens following #ifdef, #ifndef, #elifdef, #elifndef
IdentTokens == {"A"}
\* tokens following `main`
AfterMainTokens == {"(", "A", "int"}
\* tokens of the expression of an #if / #elif
ExprTokens == {"A", "(", "==", "@"}

\* the first token of toks that is not a line end
FirstToken(toks) ==
    IF \A i \in 1..Len(toks) : toks[i] = EOL THEN NoToken
    ELSE toks[CHOOSE i \in 1..Len(toks) :
                 toks[i] # EOL /\ \A j \in 1..(i - 1) : toks[j] = EOL]

\* the tokens of toks after its first one that are neither line ends nor `\`
OperandsOf(toks) ==
    SelectSeq(SubSeq(toks, 1 + (CHOOSE i \in 1..Len(toks) : toks[i] = FirstToken(toks)),
                     Len(toks)),
              LAMBDA t : t # EOL /\ t # Backslash)

\* the same in the inputs made of lines: a line may end after any token, or
\* go on after a `\`, and the line after it may start with a directive
LineTokensAfter(first, toks) ==
    CASE first = NoToken -> MainTokens
      [] first \in {"#if", "#elif"} ->
            {EOL} \cup (IF Len(OperandsOf(toks)) < MaxExprToks
                        THEN {"A", Backslash, "#endif"} ELSE {})
      [] first = "#include" -> {EOL, "\"a.h\"", "#endif"}
      [] first = "main" -> {EOL, "(", "#include"}
      [] OTHER -> {EOL, "A", "#endif"}

\* the tokens that may follow the tokens toks of an iteration that starts
\* with the token first
TokensAfter(first, toks) ==
    CASE vocabulary = "lines" -> LineTokensAfter(first, toks)
      [] first = NoToken -> MainTokens
      [] first \in {"#if", "#elif"} ->
            {EOL} \cup (IF Len(OperandsOf(toks)) < MaxExprToks THEN ExprTokens ELSE {})
      [] first = "#include" -> IncludeTokens
      [] first = "main" -> AfterMainTokens
      [] OTHER -> IdentTokens

\* the tokens that may follow the tokens toks of an iteration
TokenChoices(toks) == TokensAfter(FirstToken(toks), toks)

\* an iteration of parse's loop that read toks, followed by `end`, and left o
Iteration(o, toks, end) == [o |-> o, toks |-> toks, end |-> end]

\* the tokens the input may go on with after toks, `budget` tokens being
\* left, for an iteration that starts with a token of firsts
MoreTokens(toks, budget, firsts) ==
    IF budget = 0 THEN {}
    ELSE IF FirstToken(toks) = NoToken THEN TokenChoices(toks) \cap (firsts \cup {EOL})
    ELSE TokenChoices(toks)

\* the ways the input may end after toks ("<end>" in firsts: the input may
\* end where an iteration starts)
InputEnds(toks, firsts) ==
    IF FirstToken(toks) = NoToken /\ "<end>" \notin firsts THEN {}
    ELSE {"eof", "ioerr"}

RECURSIVE Iterations(_, _, _, _, _)
\* every way one iteration of parse's loop can go from parser p with
\* look-ahead b, given that it has read toks so far, may read `budget` more
\* tokens, and starts with a token of firsts
IterationsFrom(p, b, toks, budget, firsts, o) ==
    IF ~Starved(o.r) THEN {Iteration(o, toks, "open")}
    ELSE {Iteration(ParseIteration(p, Reader(toks, b, e)), toks, e) :
             e \in InputEnds(toks, firsts)}
         \cup UNION {Iterations(p, b, Append(toks, t), budget - 1, firsts) :
                        t \in MoreTokens(toks, budget, firsts)}

Iterations(p, b, toks, budget, firsts) ==
    IterationsFrom(p, b, toks, budget, firsts,
                   ParseIteration(p, Reader(toks, b, "open")))

\* the parser as a record of its fields
ParserRecord ==
    [conditionStack |-> conditionStack, exprGroupStack |-> exprGroupStack,
     lastToken |-> lastToken, includes |-> includes, hasMain |-> hasMain]

\* the raw branch expression the conditional directive `first` with the
\* operands ops stands for
RawBranchOf(first, ops) ==
    CASE first \in {"#ifdef", "#elifdef"} -> Defined(ops[1])
      [] first \in {"#ifndef", "#elifndef"} -> Not(Defined(ops[1]))
      [] OTHER -> ParseOr(ops, 1).e

\* the raw branch expression a conditional directive line stands for
RawBranch(toks) == RawBranchOf(FirstToken(toks), OperandsOf(toks))

\* openGroups after a successful iteration that started with first
GroupsAfterDirective(groups, first, toks) ==
    CASE first \in IfDirectives -> Append(groups, <<RawBranch(toks)>>)
      [] first \in ElifDirectives /\ Len(groups) > 0 ->
            [groups EXCEPT ![Len(groups)] = Append(@, RawBranch(toks))]
      [] first = "#endif" /\ Len(groups) > 0 -> SubSeq(groups, 1, Len(groups) - 1)
      [] OTHER -> groups

\* openGroups after a successful iteration that read toks
GroupsAfter(groups, toks) == GroupsAfterDirective(groups, FirstToken(toks), toks)

\* elseMet after a successful iteration that started with first
ElseMetAfter(met, first) ==
    CASE first \in IfDirectives -> Append(met, FALSE)
      [] first = "#else" /\ Len(met) > 0 -> [met EXCEPT ![Len(met)] = TRUE]
      [] first = "#endif" /\ Len(met) > 0 -> SubSeq(met, 1, Len(met) - 1)
      [] OTHER -> met

\* branchConds after a successful iteration that started with first and left
\* the condition stack stack: the active condition of a branch is recorded
\* until the #else of its group has been met
BranchCondsAfter(conds, met, first, stack) ==
    CASE first \in IfDirectives /\ stack # <<>> -> Append(conds, <<stack[Len(stack)]>>)
      [] /\ first \in ElifDirectives \cup {"#else"}
         /\ Len(conds) > 0 /\ Len(met) > 0 /\ ~met[Len(met)] /\ stack # <<>> ->
            [conds EXCEPT ![Len(conds)] = Append(@, stack[Len(stack)])]
      [] first = "#endif" /\ Len(conds) > 0 -> SubSeq(conds, 1, Len(conds) - 1)
      [] OTHER -> conds

-----------------------------------------------------------------------------
(* The states in which one of the two machines rests while the other runs *)

\* parse has been called and has read nothing yet
ParserStart ==
    /\ conditionStack = <<>>
    /\ exprGroupStack = <<>>
    /\ lastToken = ""
    /\ includes = <<>>
    /\ hasMain = FALSE
    /\ buf = NoToken
    /\ status = "running"
    /\ err = ""
    /\ nRead = 0
    /\ inputEnd = "open"
    /\ lastChunk = <<>>
    /\ openGroups = <<>>
    /\ elseMet = <<>>
    /\ branchConds = <<>>

ParserFresh == ParserStart /\ vocabulary = "words"

SolverIdle ==
    /\ expr = NilExpr
    /\ platformMacros = <<>>
    /\ nOps = 0
    /\ phase = "idle"
    /\ query = NilExpr
    /\ result = [isNil |-> TRUE, items |-> <<>>, panic |-> FALSE]

ExprIdle ==
    /\ derivation = <<>>
    /\ nBuilt = 0
    /\ exprInput = <<>>
    /\ parsed = ExprOk(NilExpr, 0)
    /\ reparsed = ExprOk(NilExpr, 0)

\* ParseMacros has not been called
MacrosNotCalled == [out |-> <<>>, isNil |-> TRUE, err |-> "<not called>"]

MacrosIdle ==
    /\ defList = <<>>
    /\ macrosOut = MacrosNotCalled

\* platform.Parse has not been called
PlatformNotCalled == [platform |-> Platform("", ""), err |-> "<not called>"]

\* package platform before its init has run
PlatformIdle ==
    /\ KnownPlatformMacros = <<>>
    /\ initPc = 0
    /\ platformInput = <<>>
    /\ platformParsed = PlatformNotCalled

\* group_sources has not been called
GroupsNotCalled == [called |-> FALSE, out |-> <<>>]

GrouperIdle ==
    /\ files = {}
    /\ info = <<>>
    /\ cycleMode = "merge"
    /\ sourceGroups = GroupsNotCalled

\* no scanner has been made
ScannerIdle ==
    /\ source = <<>>
    /\ fillEnd = 0
    /\ scanTokens = <<>>
    /\ wholeTokens = <<>>

AuxIdle == ExprIdle /\ MacrosIdle /\ PlatformIdle /\ GrouperIdle /\ ScannerIdle

-----------------------------------------------------------------------------
(* The parser as a state machine: func parse, one loop iteration a step *)

InitParser == ParserFresh /\ SolverIdle /\ AuxIdle

\* parse on the inputs made of lines
InitLines == ParserStart /\ vocabulary = "lines" /\ SolverIdle /\ AuxIdle

\* the iteration `it` of parse's loop takes place
Iterate(it) ==
    /\ conditionStack' = it.o.p.conditionStack
    /\ exprGroupStack' = it.o.p.exprGroupStack
    /\ lastToken' = it.o.p.lastToken
    /\ includes' = it.o.p.includes
    /\ hasMain' = it.o.p.hasMain
    /\ buf' = it.o.r.buf
    /\ status' = it.o.status
    /\ err' = it.o.err
    /\ nRead' = nRead + Len(it.toks)
    /\ inputEnd' = IF it.o.r.past THEN it.end ELSE inputEnd
    /\ lastChunk' = it.toks
    /\ openGroups' = IF it.o.status = "running" THEN GroupsAfter(openGroups, it.toks)
                     ELSE openGroups
    /\ elseMet' = IF it.o.status = "running"
                  THEN ElseMetAfter(elseMet, FirstToken(it.toks))
                  ELSE elseMet
    /\ branchConds' = IF it.o.status = "running"
                      THEN BranchCondsAfter(branchConds, elseMet, FirstToken(it.toks),
                                            it.o.p.conditionStack)
                      ELSE branchConds
    /\ UNCHANGED <<vocabulary, solverVars, auxVars>>

\* the iterations of parse's loop that can take place now and start with a
\* token of firsts
Steps(firsts) ==
    IF status = "running" /\ inputEnd = "open"
    THEN Iterations(ParserRecord, buf, <<>>, MaxTokens - nRead, firsts)
    ELSE {}

\* tr.next() fails: parse returns the source info and scanner.Err(); the
\* scanner ends here, or was seen to end by the iteration before
ReadEnd ==
    \/ \E it \in Steps({"<end>"}) : Iterate(it)
    \/ /\ status = "running"
       /\ inputEnd # "open"
       /\ Iterate(Iteration(ParseIteration(ParserRecord, Reader(<<>>, buf, inputEnd)),
                            <<>>, inputEnd))

ReadInclude == \E it \in Steps({"#include"}) : Iterate(it)
ReadIfdef == \E it \in Steps({"#ifdef", "#ifndef"}) : Iterate(it)
ReadIf == \E it \in Steps({"#if"}) : Iterate(it)
ReadElse == \E it \in Steps({"#else"}) : Iterate(it)
ReadElif == \E it \in Steps(ElifDirectives) : Iterate(it)
ReadEndif == \E it \in Steps({"#endif"}) : Iterate(it)
ReadOtherDirective == \E it \in Steps({"#define"}) : Iterate(it)
ReadMain == \E it \in Steps({"main"}) : Iterate(it)
ReadToken == \E it \in Steps({"int"}) : Iterate(it)

NextParser ==
    \/ ReadInclude
    \/ ReadIfdef
    \/ ReadIf
    \/ ReadElse
    \/ ReadElif
    \/ ReadEndif
    \/ ReadOtherDirective
    \/ ReadMain
    \/ ReadToken
    \/ ReadEnd

SpecParser == InitParser /\ [][NextParser]_vars

SpecLines == InitLines /\ [][NextParser]_vars

-----------------------------------------------------------------------------
(* Inputs of the solver *)

MacroNames == {"A", "B"}

\* the macro sets a platform may have (platform.Macros values)
MacroSets ==
    {<<>>} \cup {[n \in {"A"} |-> v] : v \in 0..MaxVal}
           \cup {[n \in MacroNames |-> IF n = "A" THEN MaxVal ELSE 0]}

Platforms == {Platform("linux", "x86_64"), Platform("windows", "aarch64")}

\* the platform-to-macros maps handed to the solver
PlatformMacroMaps == UNION {[dom -> MacroSets] : dom \in SUBSET Platforms}

\* operand pairs of the comparisons the expressions start from
OperandPairs ==
    {<<Ident("A"), Constant(v)>> : v \in 0..MaxVal}
        \cup {<<Constant(0), Ident("B")>>,
              <<Ident("A"), Ident("A")>>,
              <<Ident("A"), Ident("B")>>}

Literals ==
    {Defined(n) : n \in MacroNames}
        \cup {Compare(lr[1], op, lr[2]) : lr \in OperandPairs, op \in CompareOps}

\* the right operand of the And nodes and the left operand of the Or nodes
\* built on top
AndOperand == Defined("B")
OrOperand == Compare(Ident("A"), "<", Constant(MaxVal))

-----------------------------------------------------------------------------
(* The solver as a state machine: assemble an expression, then call *)

InitSolver ==
    /\ expr \in Literals
    /\ platformMacros \in PlatformMacroMaps
    /\ nOps = 0
    /\ phase = "build"
    /\ query = NilExpr
    /\ result = NilSlice
    /\ ParserFresh
    /\ AuxIdle

BuildNot ==
    /\ phase = "build" /\ nOps < MaxOps
    /\ expr' = Not(expr)
    /\ nOps' = nOps + 1
    /\ UNCHANGED <<platformMacros, phase, query, result, parserVars, inputVars, auxVars>>

BuildAnd ==
    /\ phase = "build" /\ nOps < MaxOps
    /\ expr' = And(expr, AndOperand)
    /\ nOps' = nOps + 1
    /\ UNCHANGED <<platformMacros, phase, query, result, parserVars, inputVars, auxVars>>

BuildOr ==
    /\ phase = "build" /\ nOps < MaxOps
    /\ expr' = Or(OrOperand, expr)
    /\ nOps' = nOps + 1
    /\ UNCHANGED <<platformMacros, phase, query, result, parserVars, inputVars, auxVars>>

\* PlatformsForExpr(e, platformMacros)
CallPlatformsForExpr ==
    /\ phase = "build"
    /\ query' = expr
    /\ result' = PlatformsForExpr(expr, platformMacros)
    /\ phase' = "called"
    /\ UNCHANGED <<expr, platformMacros, nOps, parserVars, inputVars, auxVars>>

\* PlatformsForExpr(nil, platformMacros)
CallWithNil ==
    /\ phase = "build"
    /\ query' = NilExpr
    /\ result' = PlatformsForExpr(NilExpr, platformMacros)
    /\ phase' = "calledNil"
    /\ UNCHANGED <<expr, platformMacros, nOps, parserVars, inputVars, auxVars>>

\* PlatformsForExpr(Or{e, Not{e}}, platformMacros)
CallOrNot ==
    /\ phase = "build"
    /\ query' = Or(expr, Not(expr))
    /\ result' = PlatformsForExpr(Or(expr, Not(expr)), platformMacros)
    /\ phase' = "calledOrNot"
    /\ UNCHANGED <<expr, platformMacros, nOps, parserVars, inputVars, auxVars>>

\* PlatformsForExpr(And{e, Not{e}}, platformMacros)
CallAndNot ==
    /\ phase = "build"
    /\ query' = And(expr, Not(expr))
    /\ result' = PlatformsForExpr(And(expr, Not(expr)), platformMacros)
    /\ phase' = "calledAndNot"
    /\ UNCHANGED <<expr, platformMacros, nOps, parserVars, inputVars, auxVars>>

\* c.Negate() and c.Negate().Negate() on a Compare c; the receiver is passed
\* by value, so c itself stays what it was
CallNegate ==
    /\ phase = "build"
    /\ expr.tag = "Compare"
    /\ query' = expr
    /\ result' = [neg |-> Negate(expr), negneg |-> Negate(Negate(expr))]
    /\ phase' = "negated"
    /\ UNCHANGED <<expr, platformMacros, nOps, parserVars, inputVars, auxVars>>

NextSolver ==
    \/ BuildNot
    \/ BuildAnd
    \/ BuildOr
    \/ CallPlatformsForExpr
    \/ CallWithNil
    \/ CallOrNot
    \/ CallAndNot
    \/ CallNegate

SpecSolver == InitSolver /\ [][NextSolver]_vars

-----------------------------------------------------------------------------
(* The expression parser as a state machine: an input is derived from the  *)
(* grammar step by step, then handed to parseOr. A derivation is a list of *)
(* or-terms, an or-term is a list of unaries, a unary is its tokens with   *)
(* the expression the grammar gives it.                                    *)

Unary(toks, e) == [toks |-> toks, e |-> e]

\* the expression of a primary that is a lone identifier
Primary(n) == Compare(Ident(n), "!=", Constant(0))

\* the unaries without parentheses the inputs are built from
UnaryForms ==
    {Unary(<<"A">>, Primary("A")),
     Unary(<<"!", "B">>, Not(Primary("B"))),
     Unary(<<"defined", "A">>, Defined("A")),
     Unary(<<"defined", "(", "B", ")">>, Defined("B")),
     Unary(<<"1">>, Primary("1"))}

RECURSIVE JoinTokens(_, _)
\* the tokens of the items of seq, op between neighbours
JoinTokens(seq, op) ==
    IF Len(seq) = 1 THEN seq[1]
    ELSE JoinTokens(SubSeq(seq, 1, Len(seq) - 1), op) \o <<op>> \o seq[Len(seq)]

\* the tokens a derivation stands for
DerivedTokens(d) ==
    JoinTokens([i \in 1..Len(d) |->
                   JoinTokens([j \in 1..Len(d[i]) |-> d[i][j].toks], "&&")], "||")

RECURSIVE AndOf(_)
\* And(...And(And(e1, e2), e3)..., en) for the expressions es
AndOf(es) ==
    IF Len(es) = 1 THEN es[1]
    ELSE And(AndOf(SubSeq(es, 1, Len(es) - 1)), es[Len(es)])

RECURSIVE OrOf(_)
\* Or(...Or(Or(e1, e2), e3)..., en) for the expressions es
OrOf(es) ==
    IF Len(es) = 1 THEN es[1]
    ELSE Or(OrOf(SubSeq(es, 1, Len(es) - 1)), es[Len(es)])

\* the expression the grammar gives a derivation: and binds tighter than
\* or, both group to the left
DerivedExpr(d) ==
    OrOf([i \in 1..Len(d) |-> AndOf([j \in 1..Len(d[i]) |-> d[i][j].e])])

\* func (value Ident|Constant) String under the verb %s, as tokens
ValueTokens(value) ==
    IF value.kind = "Ident" THEN <<value.name>>
    ELSE <<IF value.v = 0 THEN "0" ELSE "1">>

\* a value under the verb %d of Compare.String, as tokens: an Ident is no
\* integer and comes out as `%!d(parser.Ident=NAME)`
RightValueTokens(value) ==
    IF value.kind = "Ident"
    THEN <<"%", "!", "d", "(", "parser.Ident", "=", value.name, ")">>
    ELSE <<IF value.v = 0 THEN "0" ELSE "1">>

RECURSIVE StringTokens(_)
\* func (expr Defined|Compare|Not|And|Or) String, as the tokens the
\* tokenizer makes of the text
StringTokens(e) ==
    CASE e.tag = "Defined" -> <<"defined", "(", e.name, ")">>
      [] e.tag = "Compare" ->
            ValueTokens(e.left) \o <<e.op>> \o RightValueTokens(e.right)
      [] e.tag = "Not" -> <<"!", "(">> \o StringTokens(e.x) \o <<")">>
      [] e.tag = "And" -> StringTokens(e.l) \o <<"&&">> \o StringTokens(e.r)
      [] e.tag = "Or" -> StringTokens(e.l) \o <<"||">> \o StringTokens(e.r)

\* the expression of the result res of parseOr is written out by String
\* and the text parsed again
Reparse(res) ==
    IF res.kind = "ok" THEN ParseOr(StringTokens(res.e), 1) ELSE res

InitExpr ==
    /\ derivation \in {<<<<u>>>> : u \in UnaryForms}
    /\ nBuilt = 0
    /\ exprInput = <<>>
    /\ parsed = ExprOk(NilExpr, 0)
    /\ reparsed = ExprOk(NilExpr, 0)
    /\ ParserFresh
    /\ SolverIdle
    /\ MacrosIdle
    /\ PlatformIdle
    /\ GrouperIdle
    /\ ScannerIdle

Building == exprInput = <<>> /\ nBuilt < MaxBuild

Built(d) ==
    /\ derivation' = d
    /\ nBuilt' = nBuilt + 1
    /\ UNCHANGED <<exprInput, parsed, reparsed, solverVars, parserVars, inputVars, macroVars, platformVars, grouperVars, scannerVars>>

\* the input grows by `&& u` at its right end
AndAfter ==
    /\ Building
    /\ \E u \in UnaryForms :
          Built([derivation EXCEPT ![Len(derivation)] = Append(@, u)])

\* the input grows by `|| u` at its right end
OrAfter ==
    /\ Building
    /\ \E u \in UnaryForms : Built(Append(derivation, <<u>>))

\* the input grows by `u &&` at its left end
AndBefore ==
    /\ Building
    /\ \E u \in UnaryForms : Built([derivation EXCEPT ![1] = <<u>> \o @])

\* the input grows by `u ||` at its left end
OrBefore ==
    /\ Building
    /\ \E u \in UnaryForms : Built(<<<<u>>>> \o derivation)

\* the input is put in parentheses and becomes one unary
Parenthesise ==
    /\ Building
    /\ Built(<<<<Unary(<<"(">> \o DerivedTokens(derivation) \o <<")">>,
                       DerivedExpr(derivation))>>>>)

\* the input is put in parentheses behind a `!` and becomes one unary
NegateParenthesised ==
    /\ Building
    /\ Built(<<<<Unary(<<"!", "(">> \o DerivedTokens(derivation) \o <<")">>,
                       Not(DerivedExpr(derivation)))>>>>)

\* exprParser.parseOr is called on the tokens derived
CallParseOr ==
    /\ exprInput = <<>>
    /\ exprInput' = DerivedTokens(derivation)
    /\ parsed' = ParseOr(DerivedTokens(derivation), 1)
    /\ reparsed' = Reparse(ParseOr(DerivedTokens(derivation), 1))
    /\ UNCHANGED <<derivation, nBuilt, solverVars, parserVars, inputVars, macroVars, platformVars, grouperVars, scannerVars>>

NextExpr ==
    \/ AndAfter
    \/ OrAfter
    \/ AndBefore
    \/ OrBefore
    \/ Parenthesise
    \/ NegateParenthesised
    \/ CallParseOr

SpecExpr == InitExpr /\ [][NextExpr]_vars

-----------------------------------------------------------------------------
(* ParseMacros. A string is the sequence of its characters.                *)

Letters ==
    {"a", "b", "c", "d", "e", "f", "g", "h", "i", "j", "k", "l", "m", "n", "o",
     "p", "q", "r", "s", "t", "u", "v", "w", "x", "y", "z",
     "A", "B", "C", "D", "E", "F", "G", "H", "I", "J", "K", "L", "M", "N", "O",
     "P", "Q", "R", "S", "T", "U", "V", "W", "X", "Y", "Z"}

\* the value of a digit character, hexadecimal ones included
DigitValue(c) ==
    CASE c = "0" -> 0 [] c = "1" -> 1 [] c = "2" -> 2 [] c = "3" -> 3
      [] c = "4" -> 4 [] c = "5" -> 5 [] c = "6" -> 6 [] c = "7" -> 7
      [] c = "8" -> 8 [] c = "9" -> 9
      [] c \in {"a", "A"} -> 10 [] c \in {"b", "B"} -> 11
      [] c \in {"c", "C"} -> 12 [] c \in {"d", "D"} -> 13
      [] c \in {"e", "E"} -> 14 [] c \in {"f", "F"} -> 15
      [] OTHER -> 99

OctalDigits == {"0", "1", "2", "3", "4", "5", "6", "7"}
DecimalDigits == OctalDigits \cup {"8", "9"}
HexDigits == DecimalDigits \cup {"a", "b", "c", "d", "e", "f", "A", "B", "C", "D", "E", "F"}

\* every character of cs from position i on belongs to set
AllIn(cs, i, set) == \A j \in i..Len(cs) : cs[j] \in set

\* macroIdentifierRegex.MatchString: ^[A-Za-z_][A-Za-z0-9_]*$
MacroIdentifierMatch(cs) ==
    /\ cs # <<>>
    /\ cs[1] \in Letters \cup {"_"}
    /\ AllIn(cs, 2, Letters \cup DecimalDigits \cup {"_"})

\* the first group of parsableIntegerRegex: 0[xX][0-9a-fA-F]+ | 0[0-7]* | [1-9][0-9]*
NumeralMatch(cs) ==
    /\ cs # <<>>
    /\ \/ Len(cs) >= 3 /\ cs[1] = "0" /\ cs[2] \in {"x", "X"} /\ AllIn(cs, 3, HexDigits)
       \/ cs[1] = "0" /\ AllIn(cs, 2, OctalDigits)
       \/ cs[1] \in DecimalDigits \ {"0"} /\ AllIn(cs, 2, DecimalDigits)

\* the second group of parsableIntegerRegex:
\* (?:[uU](?:ll?|LL?)?|ll?[uU]?|LL?[uU]?)?
IntegerSuffixes ==
    {<<>>}
    \cup {<<u>> \o l : u \in {"u", "U"},
                       l \in {<<>>, <<"l">>, <<"l", "l">>, <<"L">>, <<"L", "L">>}}
    \cup {l \o u : l \in {<<"l">>, <<"l", "l">>, <<"L">>, <<"L", "L">>},
                   u \in {<<>>, <<"u">>, <<"U">>}}

\* parsableIntegerRegex.MatchString
ParsableIntegerMatch(cs) ==
    \E k \in 0..Len(cs) :
        /\ NumeralMatch(SubSeq(cs, 1, k))
        /\ SubSeq(cs, k + 1, Len(cs)) \in IntegerSuffixes

RECURSIVE TrimSuffixChars(_)
\* strings.TrimRightFunc(tok, r is one of u U l L)
TrimSuffixChars(cs) ==
    IF cs # <<>> /\ cs[Len(cs)] \in {"u", "U", "l", "L"}
    THEN TrimSuffixChars(SubSeq(cs, 1, Len(cs) - 1))
    ELSE cs

RECURSIVE DropZeros(_)
\* digits without their leading zeros
DropZeros(ds) == IF ds # <<>> /\ ds[1] = "0" THEN DropZeros(Tail(ds)) ELSE ds

\* the digits of math.MaxInt64 = 9223372036854775807
MaxInt64Digits == <<9, 2, 2, 3, 3, 7, 2, 0, 3, 6, 8, 5, 4, 7, 7, 5, 8, 0, 7>>

\* the decimal digits ds, as many as MaxInt64Digits, stand for no more than it
NotAboveMaxInt64(ds) ==
    \/ \A i \in 1..Len(ds) : DigitValue(ds[i]) = MaxInt64Digits[i]
    \/ \E i \in 1..Len(ds) :
          /\ DigitValue(ds[i]) < MaxInt64Digits[i]
          /\ \A j \in 1..(i - 1) : DigitValue(ds[j]) = MaxInt64Digits[j]

\* the number with the digits ds (no leading zero) in base `base` fits int64
FitsInt64(base, ds) ==
    CASE base = 16 -> Len(ds) < 16 \/ (Len(ds) = 16 /\ DigitValue(ds[1]) <= 7)
      [] base = 8 -> Len(ds) <= 21
      [] OTHER -> Len(ds) < 19 \/ (Len(ds) = 19 /\ NotAboveMaxInt64(ds))

RECURSIVE DigitsValue(_, _)
\* the number with the digits ds in base `base`
DigitsValue(base, ds) ==
    IF ds = <<>> THEN 0
    ELSE DigitsValue(base, SubSeq(ds, 1, Len(ds) - 1)) * base + DigitValue(ds[Len(ds)])

\* strconv.ParseInt(tok, 0, 64) on digits ds in base `base`: a range error
\* beyond math.MaxInt64
ParseIntDigits(base, ds) ==
    IF FitsInt64(base, DropZeros(ds))
    THEN [ok |-> TRUE, v |-> DigitsValue(base, DropZeros(ds))]
    ELSE [ok |-> FALSE, v |-> 0]

\* a base that reads a leading 0 as decimal
IntBase_LeadingZeroDecimal(cs) ==
    IF Len(cs) >= 2 /\ cs[1] = "0" /\ cs[2] \in {"x", "X"} THEN 16 ELSE 10

\* strconv.ParseInt with base 0: the base the prefix of cs stands for
IntBase(cs) ==
    IF Len(cs) >= 2 /\ cs[1] = "0" /\ cs[2] \in {"x", "X"} THEN 16
    ELSE IF cs[1] = "0" THEN 8
    ELSE 10

\* strconv.ParseInt(tok, 0, 64), on a numeral the regular expression admits
ParseInt(cs) ==
    ParseIntDigits(IntBase(cs), IF IntBase(cs) = 16 THEN SubSeq(cs, 3, Len(cs)) ELSE cs)

\* func parseIntLiteral, on a string parsableIntegerRegex matches
ParseIntLiteralChars(cs) == ParseInt(TrimSuffixChars(cs))

\* strings.TrimPrefix(d, "-D")
TrimPrefixD(d) ==
    IF Len(d) >= 2 /\ d[1] = "-" /\ d[2] = "D" THEN SubSeq(d, 3, Len(d)) ELSE d

\* strings.IndexByte(d, '='), counted from 1; 0 when there is none
IndexEq(d) ==
    IF \E i \in 1..Len(d) : d[i] = "=" 
    THEN CHOOSE i \in 1..Len(d) : d[i] = "=" /\ \A j \in 1..(i - 1) : d[j] # "="
    ELSE 0

\* name of `name, raw := d, ""` and `name, raw = d[:eq], d[eq+1:]`
MacroName(d) == IF IndexEq(d) = 0 THEN d ELSE SubSeq(d, 1, IndexEq(d) - 1)

\* raw of `name, raw := d, ""` and `name, raw = d[:eq], d[eq+1:]`
MacroRaw(d) == IF IndexEq(d) = 0 THEN <<>> ELSE SubSeq(d, IndexEq(d) + 1, Len(d))

\* out[name] = value
PutMacro(out, name, value) ==
    [n \in DOMAIN out \cup {name} |-> IF n = name THEN value ELSE out[n]]

\* what ParseMacros returns: the map (nil or not) and the error ("" for nil)
MacrosRet(out, isNil, e) == [out |-> out, isNil |-> isNil, err |-> e]

RECURSIVE ParseMacrosFrom(_, _, _)
\* the body of ParseMacros' loop for the definition with this name and raw
ParseMacroDef(ds, i, out, name, raw) ==
    IF ~MacroIdentifierMatch(name) THEN MacrosRet(out, FALSE, "invalid macro name")
    ELSE IF raw = <<>> THEN ParseMacrosFrom(ds, i + 1, PutMacro(out, name, 1))
    ELSE IF ~ParsableIntegerMatch(raw)
    THEN MacrosRet(<<>>, TRUE, "only integer literal values are allowed")
    ELSE Let(ParseIntLiteralChars(raw), LAMBDA v :
             IF ~v.ok THEN MacrosRet(out, FALSE, "value out of range")
             ELSE ParseMacrosFrom(ds, i + 1, PutMacro(out, name, v.v)))

\* ParseMacros' loop from the i-th definition on
ParseMacrosFrom(ds, i, out) ==
    IF i > Len(ds) THEN MacrosRet(out, FALSE, "")
    ELSE ParseMacroDef(ds, i, out, MacroName(TrimPrefixD(ds[i])),
                       MacroRaw(TrimPrefixD(ds[i])))

\* func ParseMacros
ParseMacros(ds) == ParseMacrosFrom(ds, 1, <<>>)

\* names of macros in the inputs; the last is no identifier
InputNames == {<<"F">>, <<"_", "g", "1">>, <<"1", "F">>}

\* values in the inputs, after the `=`
InputRaws ==
    {<<>>, <<"1">>, <<"0", "1", "7">>, <<"0", "x", "1", "F">>, <<"2", "U", "L">>,
     <<"1", "u", "u">>, <<"b">>, <<"1", ".", "5">>,
     <<"9", "9", "9", "9", "9", "9", "9", "9", "9", "9",
       "9", "9", "9", "9", "9", "9", "9", "9", "9", "9">>}

\* the definitions in the inputs
InputDefs ==
    InputNames
    \cup {n \o <<"=">> \o r : n \in InputNames \ {<<"1", "F">>}, r \in InputRaws}
    \cup {<<"-", "D", "F">>, <<"-", "D", "F", "=", "0", "1", "7">>, <<"1", "F", "=", "1">>}

InitMacros ==
    /\ defList = <<>>
    /\ macrosOut = MacrosNotCalled
    /\ ParserFresh
    /\ SolverIdle
    /\ ExprIdle
    /\ PlatformIdle
    /\ GrouperIdle
    /\ ScannerIdle

\* the caller adds a definition to the list
AddDef ==
    /\ macrosOut = MacrosNotCalled
    /\ Len(defList) < MaxDefs
    /\ \E d \in InputDefs : defList' = Append(defList, d)
    /\ UNCHANGED <<macrosOut, solverVars, parserVars, inputVars, exprVars, platformVars, grouperVars, scannerVars>>

CallParseMacros ==
    /\ macrosOut = MacrosNotCalled
    /\ macrosOut' = ParseMacros(defList)
    /\ UNCHANGED <<defList, solverVars, parserVars, inputVars, exprVars, platformVars, grouperVars, scannerVars>>

NextMacros ==
    \/ AddDef
    \/ CallParseMacros

SpecMacros == InitMacros /\ [][NextMacros]_vars

-----------------------------------------------------------------------------
(* Package platform: the catalogues, the table of predefined macros built  *)
(* by init, and Parse. Slices of platforms are modelled as sets: the table *)
(* does not depend on their order.                                         *)

\* var osAlias
osAlias == [v \in {"macos"} |-> "osx"]

\* var allKnownOs
allKnownOs ==
    {"android", "chromiumos", "emscripten", "freebsd", "fuchsia", "haiku",
     "ios", "linux", "netbsd", "nixos", "none", "openbsd", "osx", "qnx",
     "tvos", "uefi", "visionos", "vxworks", "wasi", "watchos", "windows"}

\* var archAlias
archAlias ==
    [v \in {"arm", "arm64", "amd64"} |->
        CASE v = "arm" -> "aarch32" [] v = "arm64" -> "aarch64" [] v = "amd64" -> "x86_64"]

\* var allKnownArch
allKnownArch ==
    {"aarch32", "aarch64", "arm64_32", "arm64e", "armv6-m", "armv7",
     "armv7e-m", "armv7e-mf", "armv7k", "armv7-m", "armv8-m", "cortex-r52",
     "cortex-r82", "i386", "mips64", "ppc", "ppc32", "ppc64le", "riscv32",
     "riscv64", "s390x", "wasm32", "wasm64", "x86_32", "x86_64"}

\* func platformsMatrix
PlatformsMatrix_FieldsSwapped(os, arch) == {Platform(a, o) : o \in os, a \in arch}

PlatformsMatrix(os, arch) == {Platform(o, a) : o \in os, a \in arch}

\* func osArchPlatform
OsArchPlatform(os, arch) == {Platform(os, arch)}

\* func osArchPlatforms: the matrix, and the platform of the OS alone
OsArchPlatforms(os, arch) == PlatformsMatrix({os}, arch) \cup {Platform(os, "")}

\* func archOsPlatforms: the matrix, and the platform of the arch alone
ArchOsPlatforms(arch, os) == PlatformsMatrix(os, {arch}) \cup {Platform("", arch)}

\* a call addMacros(names, platforms), or addMacro(name, platforms)
AddMacrosCall(names, platforms) == [names |-> names, platforms |-> platforms]

(* the local variables of init *)

initLocals ==
    [windowsArchs |-> {"i386", "x86_32", "x86_64", "aarch32", "aarch64"},
     linuxArchs |-> allKnownArch,
     androidArchs |-> {"aarch32", "aarch64", "x86_32", "x86_64", "riscv64"},
     chromeArchs |-> {"x86_64", "aarch64", "riscv64"},
     unixOS |-> {"linux", "android", "chromiumos", "nixos", "freebsd", "netbsd", "openbsd", "haiku", "qnx"},
     wasmArchs |-> {"wasm32", "wasm64"},
     bsdArchs |-> {"i386", "x86_64", "aarch64", "riscv64", "ppc64le"},
     qnxArchs |-> {"aarch32", "aarch64", "ppc32", "ppc64le", "x86_32", "x86_64"},
     haikuArchs |-> {"x86_32", "x86_64"},
     fuchsiaArchs |-> {"aarch64", "x86_64"},
     vxworksArchs |-> {"aarch32", "aarch64", "ppc32", "ppc64le", "x86_32", "x86_64"},
     uefiArchs |-> {"aarch32", "aarch64", "x86_32", "x86_64", "riscv64"},
     macArchs |-> {"x86_64", "aarch64", "arm64e"},
     iosArchs |-> {"aarch64", "arm64e"},
     tvosArchs |-> {"aarch64"},
     watchArchs |-> {"armv7k", "arm64_32"},
     visionArchs |-> {"aarch64"},
     powerPCOS |-> {"linux", "freebsd", "netbsd", "openbsd", "qnx", "vxworks"},
     mipsOS |-> {"linux", "netbsd", "openbsd", "qnx", "vxworks"},
     riscvOS |-> {"linux", "freebsd", "netbsd", "openbsd", "qnx", "vxworks", "android", "chromiumos", "fuchsia", "nixos"}]

applePlatforms ==
    OsArchPlatforms("osx", initLocals.macArchs)
    \cup OsArchPlatforms("ios", initLocals.iosArchs)
    \cup OsArchPlatforms("tvos", initLocals.tvosArchs)
    \cup OsArchPlatforms("watchos", initLocals.watchArchs)
    \cup OsArchPlatforms("visionos", initLocals.visionArchs)

\* func init: its addMacro / addMacros calls in order
InitCalls ==
    <<
    AddMacrosCall({"_WIN32"},
                  OsArchPlatforms("windows", initLocals.windowsArchs)),
    AddMacrosCall({"_WIN64"},
                  OsArchPlatforms("windows", {"x86_64", "aarch64"})),
    AddMacrosCall({"__MINGW32__"},
                  OsArchPlatform("windows", "i386")),
    AddMacrosCall({"__MINGW64__"},
                  OsArchPlatform("windows", "x86_64")),
    AddMacrosCall({"_M_IX86"},
                  OsArchPlatform("windows", "i386")),
    AddMacrosCall({"_M_X64"},
                  OsArchPlatform("windows", "x86_64")),
    AddMacrosCall({"_M_ARM"},
                  OsArchPlatform("windows", "aarch32")),
    AddMacrosCall({"_M_ARM64"},
                  OsArchPlatform("windows", "aarch64")),
    AddMacrosCall({"linux", "__linux__", "__linux", "__gnu_linux__"},
                  OsArchPlatforms("linux", initLocals.linuxArchs)),
    AddMacrosCall({"__NIX__"},
                  OsArchPlatforms("nixos", initLocals.linuxArchs)),
    AddMacrosCall({"__NIXOS__"},
                  OsArchPlatforms("nixos", initLocals.linuxArchs)),
    AddMacrosCall({"__ANDROID__"},
                  OsArchPlatforms("android", initLocals.androidArchs)),
    AddMacrosCall({"__CHROMEOS__"},
                  OsArchPlatforms("chromiumos", initLocals.chromeArchs)),
    AddMacrosCall({"unix", "__unix", "__unix__"},
                  PlatformsMatrix(initLocals.unixOS, allKnownArch)),
    AddMacrosCall({"__EMSCRIPTEN__"},
                  PlatformsMatrix({"emscripten"}, initLocals.wasmArchs)),
    AddMacrosCall({"__wasi__"},
                  PlatformsMatrix({"wasi"}, initLocals.wasmArchs)),
    AddMacrosCall({"__wasm__"},
                  PlatformsMatrix({"emscripten", "wasi"}, initLocals.wasmArchs)),
    AddMacrosCall({"__wasm32__"},
                  PlatformsMatrix({"emscripten", "wasi"}, {"wasm32"})),
    AddMacrosCall({"__wasm64__"},
                  PlatformsMatrix({"emscripten", "wasi"}, {"wasm64"})),
    AddMacrosCall({"__FreeBSD__"},
                  PlatformsMatrix({"freebsd"}, initLocals.bsdArchs)),
    AddMacrosCall({"__NetBSD__"},
                  PlatformsMatrix({"netbsd"}, initLocals.bsdArchs)),
    AddMacrosCall({"__OpenBSD__"},
                  PlatformsMatrix({"openbsd"}, initLocals.bsdArchs)),
    AddMacrosCall({"__QNX__"},
                  OsArchPlatforms("qnx", initLocals.qnxArchs)),
    AddMacrosCall({"__QNXNTO__"},
                  OsArchPlatforms("qnx", initLocals.qnxArchs)),
    AddMacrosCall({"__HAIKU__"},
                  OsArchPlatforms("haiku", initLocals.haikuArchs)),
    AddMacrosCall({"__FUCHSIA__"},
                  OsArchPlatforms("fuchsia", initLocals.fuchsiaArchs)),
    AddMacrosCall({"__Fuchsia__"},
                  OsArchPlatforms("fuchsia", initLocals.fuchsiaArchs)),
    AddMacrosCall({"__VXWORKS__"},
                  OsArchPlatforms("vxworks", initLocals.vxworksArchs)),
    AddMacrosCall({"__vxworks"},
                  OsArchPlatforms("vxworks", initLocals.vxworksArchs)),
    AddMacrosCall({"__UEFI__"},
                  OsArchPlatforms("uefi", initLocals.uefiArchs)),
    AddMacrosCall({"__EFI__"},
                  OsArchPlatforms("uefi", initLocals.uefiArchs)),
    AddMacrosCall({"__APPLE__"},
                  applePlatforms),
    AddMacrosCall({"__MACH__"},
                  applePlatforms),
    AddMacrosCall({"TARGET_OS_OSX"},
                  OsArchPlatforms("osx", initLocals.macArchs)),
    AddMacrosCall({"TARGET_OS_MAC"},
                  OsArchPlatforms("osx", initLocals.macArchs)),
    AddMacrosCall({"TARGET_OS_IPHONE"},
                  OsArchPlatforms("ios", initLocals.iosArchs)),
    AddMacrosCall({"TARGET_OS_IOS"},
                  OsArchPlatforms("ios", initLocals.iosArchs)),
    AddMacrosCall({"TARGET_OS_TV"},
                  OsArchPlatforms("tvos", initLocals.tvosArchs)),
    AddMacrosCall({"TARGET_OS_WATCH"},
                  OsArchPlatforms("watchos", initLocals.watchArchs)),
    AddMacrosCall({"TARGET_OS_VISION"},
                  OsArchPlatforms("visionos", initLocals.visionArchs)),
    AddMacrosCall({"__x86_64__", "__x86_64", "__amd64", "__amd64__"},
                  ArchOsPlatforms("aarch64", allKnownOs)),
    AddMacrosCall({"__i386__", "__i386"},
                  ArchOsPlatforms("i386", allKnownOs)),
    AddMacrosCall({"__arm__", "__arm", "__thumb__", "__thumb"},
                  ArchOsPlatforms("aarch32", allKnownOs)),
    AddMacrosCall({"__aarch64__", "__arm64", "__arm64__"},
                  ArchOsPlatforms("aarch64", allKnownOs)),
    AddMacrosCall({"__ARM64_32__", "__ARM64_32"},
                  OsArchPlatform("watchos", "arm64_32")),
    AddMacrosCall({"__arm64e__", "__arm64e"},
                  ArchOsPlatforms("arm64e", {"osx", "ios"})),
    AddMacrosCall({"__ARM_ARCH_6M__"},
                  OsArchPlatform("none", "armv6-m")),
    AddMacrosCall({"__ARM_ARCH_7__"},
                  OsArchPlatform("none", "armv7")),
    AddMacrosCall({"__ARM_ARCH_7A__"},
                  OsArchPlatform("none", "armv7")),
    AddMacrosCall({"__ARM_ARCH_7M__"},
                  OsArchPlatform("none", "armv7-m")),
    AddMacrosCall({"__ARM_ARCH_7EM__"},
                  OsArchPlatform("none", "armv7e-m")),
    AddMacrosCall({"__ARM_ARCH_8M_BASE__"},
                  OsArchPlatform("none", "armv8-m")),
    AddMacrosCall({"__ARM_ARCH_8M_MAIN__"},
                  OsArchPlatform("none", "armv8-m")),
    AddMacrosCall({"__powerpc__"},
                  ArchOsPlatforms("ppc32", initLocals.powerPCOS)),
    AddMacrosCall({"__PPC__"},
                  ArchOsPlatforms("ppc32", initLocals.powerPCOS)),
    AddMacrosCall({"__powerpc64__"},
                  ArchOsPlatforms("ppc64le", initLocals.powerPCOS)),
    AddMacrosCall({"__ppc64__"},
                  ArchOsPlatforms("ppc64le", initLocals.powerPCOS)),
    AddMacrosCall({"__mips64"},
                  ArchOsPlatforms("mips64", initLocals.mipsOS)),
    AddMacrosCall({"__s390x__"},
                  OsArchPlatform("linux", "s390x")),
    AddMacrosCall({"__s390__"},
                  OsArchPlatform("linux", "s390x")),
    AddMacrosCall({"__riscv"},
                  ArchOsPlatforms("riscv64", initLocals.riscvOS))
    >>

\* func addMacros (func addMacro for each name, func addMacroValue with
\* the value 1): macros[name] = 1 on every platform of the list, a platform
\* not yet in the table getting a fresh Macros
AddMacros(table, names, platforms) ==
    [q \in DOMAIN table \cup platforms |->
        IF q \in platforms
        THEN [n \in (IF q \in DOMAIN table THEN DOMAIN table[q] ELSE {}) \cup names |->
                 IF n \in names THEN 1 ELSE table[q][n]]
        ELSE table[q]]

RECURSIVE FieldsFunc(_)
\* strings.FieldsFunc(value, r == '/'): the maximal runs without a slash;
\* in a string given as words and separators these are its words
FieldsFunc(value) ==
    IF value = <<>> THEN <<>>
    ELSE IF Head(value) = "/" THEN FieldsFunc(Tail(value))
    ELSE <<Head(value)>> \o FieldsFunc(Tail(value))

\* a dealias that knows no alias
Dealias_NoAlias(value, aliases) == value

\* func dealias
Dealias(value, aliases) ==
    IF value \in DOMAIN aliases THEN aliases[value] ELSE value

\* what Parse returns: the platform and the error ("" for nil)
ParseRet(pf, e) == [platform |-> pf, err |-> e]

\* Parse from `platform := Platform{...}` on
ParseFields(pf) ==
    IF pf.OS \notin allKnownOs THEN ParseRet(pf, "unknown OS")
    ELSE IF pf.Arch \notin allKnownArch THEN ParseRet(pf, "unknown architecture")
    ELSE ParseRet(pf, "")

\* func Parse
Parse(value) ==
    IF Len(FieldsFunc(value)) # 2
    THEN ParseRet(Platform("", ""), "malformed platform string")
    ELSE ParseFields(Platform(Dealias(FieldsFunc(value)[1], osAlias),
                              Dealias(FieldsFunc(value)[2], archAlias)))

\* the words of the strings handed to Parse
InputWords == {"linux", "macos", "x86_64", "amd64", "arm", "arm64", "all", "bogus"}

\* the pieces that can follow the string value: no word right after a word
NextPieces(value) ==
    IF value # <<>> /\ value[Len(value)] # "/" THEN {"/"} ELSE InputWords \cup {"/"}

InitPlatform ==
    /\ KnownPlatformMacros = <<>>
    /\ initPc = 0
    /\ platformInput = <<>>
    /\ platformParsed = PlatformNotCalled
    /\ ParserFresh
    /\ SolverIdle
    /\ ExprIdle
    /\ MacrosIdle
    /\ GrouperIdle
    /\ ScannerIdle

\* init makes its next addMacro / addMacros call
InitAddMacros ==
    /\ initPc < Len(InitCalls)
    /\ initPc' = initPc + 1
    /\ KnownPlatformMacros' =
          AddMacros(KnownPlatformMacros, InitCalls[initPc + 1].names,
                    InitCalls[initPc + 1].platforms)
    /\ UNCHANGED <<platformInput, platformParsed, solverVars, parserVars, inputVars,
                   exprVars, macroVars, grouperVars, scannerVars>>

\* a caller, after init, puts together the string it will hand to Parse
AppendPiece ==
    /\ initPc = Len(InitCalls)
    /\ platformParsed = PlatformNotCalled
    /\ Len(platformInput) < MaxPieces
    /\ \E piece \in NextPieces(platformInput) :
          platformInput' = Append(platformInput, piece)
    /\ UNCHANGED <<KnownPlatformMacros, initPc, platformParsed, solverVars, parserVars,
                   inputVars, exprVars, macroVars, grouperVars, scannerVars>>

CallParse ==
    /\ initPc = Len(InitCalls)
    /\ platformParsed = PlatformNotCalled
    /\ platformParsed' = Parse(platformInput)
    /\ UNCHANGED <<KnownPlatformMacros, initPc, platformInput, solverVars, parserVars,
                   inputVars, exprVars, macroVars, grouperVars, scannerVars>>

NextPlatform ==
    \/ InitAddMacros
    \/ AppendPiece
    \/ CallParse

SpecPlatform == InitPlatform /\ [][NextPlatform]_vars

-----------------------------------------------------------------------------
(* The source grouper, group_sources, as the specification describes it    *)
(* (section 4.4): initial groups by base name, edges from the non-system,  *)
(* unconditional includes, strongly connected components merged or, in     *)
(* warn mode, left apart with their cyclic edges dropped.                  *)

\* the file names of the inputs, and the base name of each
FileNames == {"a.h", "a.c", "b.h", "c.h"}

BaseName(f) ==
    CASE f \in {"a.h", "a.c"} -> "a"
      [] f = "b.h" -> "b"
      [] f = "c.h" -> "c"
      [] f = "x.h" -> "x"

\* position of the file names and group ids in the order of strings
NameRank(n) ==
    CASE n = "a" -> 1 [] n = "a.c" -> 2 [] n = "a.h" -> 3 [] n = "b" -> 4
      [] n = "b.h" -> 5 [] n = "c" -> 6 [] n = "c.h" -> 7 [] n = "x" -> 8
      [] n = "x.h" -> 9

\* the smallest name of the non-empty set names
MinName(names) == CHOOSE n \in names : \A o \in names : NameRank(n) <= NameRank(o)

RECURSIVE SortNames(_)
\* the names of a set in ascending order
SortNames(names) ==
    IF names = {} THEN <<>>
    ELSE <<MinName(names)>> \o SortNames(names \ {MinName(names)})

\* the ids of the initial groups: the base names of the files
InitialIds(fs) == {BaseName(f) : f \in fs}

\* the files of the initial group id
InitialSources(fs, id) == {f \in fs : BaseName(f) = id}

\* the includes of file f that make an edge: not a system include, not
\* under a condition, and of a known file
EdgeIncludes_HeadersOnly(fs, inf, f) ==
    IF f = "a.c" THEN {}
    ELSE {i \in inf[f] : ~i.IsSystemInclude /\ i.Condition = NilExpr /\ i.Path \in fs}

EdgeIncludes(fs, inf, f) ==
    {i \in inf[f] : ~i.IsSystemInclude /\ i.Condition = NilExpr /\ i.Path \in fs}

\* the edges between initial groups, self-edges skipped
GroupEdges(fs, inf) ==
    {e \in UNION {{<<BaseName(f), BaseName(i.Path)>> : i \in EdgeIncludes(fs, inf, f)} :
                     f \in fs} :
        e[1] # e[2]}

RECURSIVE ReachableWithin(_, _, _, _)
\* t can be reached from s over at most n edges of es
ReachableWithin(es, s, t, n) ==
    \/ s = t
    \/ n > 0 /\ \E e \in es : e[1] = s /\ ReachableWithin(es, e[2], t, n - 1)

\* the strongly connected component of id
Component(fs, inf, id) ==
    {o \in InitialIds(fs) :
        /\ ReachableWithin(GroupEdges(fs, inf), id, o, Cardinality(InitialIds(fs)))
        /\ ReachableWithin(GroupEdges(fs, inf), o, id, Cardinality(InitialIds(fs)))}

\* the id under which the initial group id comes out: in merge mode the
\* smallest id of its component
OutputId(fs, inf, mode, id) ==
    IF mode = "merge" THEN MinName(Component(fs, inf, id)) ELSE id

\* the initial groups that make up the output group id
Members_OwnIdOnly(fs, inf, mode, id) == {id}

Members(fs, inf, mode, id) ==
    IF mode = "merge" THEN Component(fs, inf, id) ELSE {id}

\* the ids the output group id depends on: the targets of the edges that
\* leave its members and its component, under their output ids
DependsOn_KeepsCyclicEdges(fs, inf, mode, id) ==
    {OutputId(fs, inf, mode, e[2]) :
        e \in {d \in GroupEdges(fs, inf) : d[1] \in Members(fs, inf, mode, id)}}

DependsOn_MemberIds(fs, inf, mode, id) ==
    {e[2] : e \in {d \in GroupEdges(fs, inf) :
                     /\ d[1] \in Members(fs, inf, mode, id)
                     /\ d[2] \notin Component(fs, inf, id)}}

DependsOn(fs, inf, mode, id) ==
    {OutputId(fs, inf, mode, e[2]) :
        e \in {d \in GroupEdges(fs, inf) :
                  /\ d[1] \in Members(fs, inf, mode, id)
                  /\ d[2] \notin Component(fs, inf, id)}}

\* the output group id
Group(fs, inf, mode, id) ==
    [sources |-> SortNames(UNION {InitialSources(fs, m) : m \in Members(fs, inf, mode, id)}),
     dependsOn |-> SortNames(DependsOn(fs, inf, mode, id)),
     subGroups |-> IF Cardinality(Members(fs, inf, mode, id)) > 1
                   THEN SortNames(Members(fs, inf, mode, id)) ELSE <<>>]

\* group_sources
GroupSources(fs, inf, mode) ==
    [id \in {OutputId(fs, inf, mode, o) : o \in InitialIds(fs)} |-> Group(fs, inf, mode, id)]

\* an include as the parser records it
PlainInclude(path) == Include(path, FALSE, NilExpr)

\* the includes of the inputs: plain ones of the known headers and of an
\* unknown one, a system include and a conditional include
InputIncludes ==
    {PlainInclude(path) : path \in {"a.h", "b.h", "c.h", "x.h"}}
        \cup {Include("b.h", TRUE, NilExpr), Include("a.h", FALSE, Defined("A"))}

\* the number of includes of all files together
IncludeCount == Cardinality({<<f, i>> \in files \X InputIncludes : i \in info[f]})

InitGrouper ==
    /\ files \in SUBSET FileNames \ {{}}
    /\ info = [f \in files |-> {}]
    /\ cycleMode \in {"merge", "warn"}
    /\ sourceGroups = GroupsNotCalled
    /\ ParserFresh
    /\ SolverIdle
    /\ ExprIdle
    /\ MacrosIdle
    /\ PlatformIdle
    /\ ScannerIdle

\* one more include is found in one of the files
FindInclude ==
    /\ ~sourceGroups.called
    /\ IncludeCount < MaxIncludes
    /\ \E f \in files, i \in InputIncludes :
          /\ i \notin info[f]
          /\ info' = [info EXCEPT ![f] = @ \cup {i}]
    /\ UNCHANGED <<files, cycleMode, sourceGroups, solverVars, parserVars, inputVars,
                   exprVars, macroVars, platformVars, scannerVars>>

CallGroupSources ==
    /\ ~sourceGroups.called
    /\ sourceGroups' = [called |-> TRUE, out |-> GroupSources(files, info, cycleMode)]
    /\ UNCHANGED <<files, info, cycleMode, solverVars, parserVars, inputVars,
                   exprVars, macroVars, platformVars, scannerVars>>

NextGrouper ==
    \/ FindInclude
    \/ CallGroupSources

SpecGrouper == InitGrouper /\ [][NextGrouper]_vars

-----------------------------------------------------------------------------
(* The tokenizer, a bufio.SplitFunc, and the bufio.Scanner that calls it.  *)
(* data is a sequence of bytes, a token a sequence of bytes or the line    *)
(* end marker; positions count from 1, so the code's i is i - 1 here.      *)

\* func isEOL
isEOL(char) == char = "\n"

\* func isParanthesis
isParanthesis(char) == char \in {"(", ")", "[", "]", "{", "}"}

\* unicode.IsSpace, line ends included
IsSpace(char) == char \in {" ", "\t", "\n"}

\* what the split function returns: the bytes to advance by, the token
\* (hasToken false for nil) and whether the error is io.EOF
SplitRet(advance, hasToken, tok, eof) ==
    [advance |-> advance, hasToken |-> hasToken, token |-> tok, eof |-> eof]

\* bytes.HasPrefix(data[i:], prefix) for a prefix of two bytes
HasPrefix2(data, i, prefix) ==
    i + 1 <= Len(data) /\ data[i] = prefix[1] /\ data[i + 1] = prefix[2]

RECURSIVE LineCommentEnd(_, _)
\* the loop `for i < len(data) && data[i] != '\n'`
LineCommentEnd(data, i) ==
    IF i <= Len(data) /\ data[i] # "\n" THEN LineCommentEnd(data, i + 1) ELSE i

RECURSIVE BlockCommentEnd(_, _)
\* the loop `for i < len(data)-1` that looks for `*/`
BlockCommentEnd(data, i) ==
    IF i < Len(data)
    THEN IF data[i] = "*" /\ data[i + 1] = "/" THEN i + 2
         ELSE BlockCommentEnd(data, i + 1)
    ELSE i

\* the bytes that end a word
EndsWord(char) ==
    isEOL(char) \/ char \in {"!", "=", "<", ">"} \/ IsSpace(char) \/ isParanthesis(char)

RECURSIVE WordEnd(_, _)
\* the loop of the default case: the position after the word
WordEnd(data, i) ==
    IF i <= Len(data) /\ ~EndsWord(data[i]) THEN WordEnd(data, i + 1) ELSE i

RECURSIVE TokenizerFrom(_, _, _)
\* func tokenizer from the position i of its loop on
TokenizerFrom(data, i, atEOF) ==
    IF i > Len(data)
    THEN IF atEOF THEN SplitRet(Len(data), FALSE, <<>>, TRUE)
         ELSE SplitRet(i - 1, FALSE, <<>>, FALSE)
    ELSE IF isEOL(data[i]) THEN SplitRet(i, TRUE, <<EOL>>, FALSE)
    ELSE IF HasPrefix2(data, i, <<"/", "/">>)
    THEN TokenizerFrom(data, LineCommentEnd(data, i + 2), atEOF)
    ELSE IF HasPrefix2(data, i, <<"/", "*">>)
    THEN TokenizerFrom(data, BlockCommentEnd(data, i + 2), atEOF)
    ELSE IF IsSpace(data[i]) THEN TokenizerFrom(data, i + 1, atEOF)
    ELSE IF isParanthesis(data[i]) THEN SplitRet(i, TRUE, <<data[i]>>, FALSE)
    ELSE IF data[i] \in {"!", "=", "<", ">"}
    THEN IF i + 1 <= Len(data) /\ data[i + 1] = "="
         THEN SplitRet(i + 1, TRUE, <<data[i], "=">>, FALSE)
         ELSE SplitRet(i, TRUE, <<data[i]>>, FALSE)
    ELSE SplitRet(WordEnd(data, i) - 1, TRUE, SubSeq(data, i, WordEnd(data, i) - 1), FALSE)

\* func tokenizer
Tokenizer(data, atEOF) == TokenizerFrom(data, 1, atEOF)

RECURSIVE ScanAll(_, _, _, _)
\* the tokens of the successive calls of bufio.Scanner.Scan: held are the
\* bytes read and not yet consumed, fills the data of the reader's Reads to
\* come, atEOF whether the reader has reported the end of the input
ScanAll(held, fills, atEOF, out) ==
    IF held # <<>> \/ atEOF
    THEN Let(Tokenizer(held, atEOF), LAMBDA sp :
             IF sp.eof THEN out
             ELSE IF sp.hasToken
             THEN ScanAll(SubSeq(held, sp.advance + 1, Len(held)), fills, atEOF,
                          Append(out, sp.token))
             ELSE IF atEOF THEN out
             ELSE IF fills = <<>>
             THEN ScanAll(SubSeq(held, sp.advance + 1, Len(held)), fills, TRUE, out)
             ELSE ScanAll(SubSeq(held, sp.advance + 1, Len(held)) \o Head(fills),
                          Tail(fills), FALSE, out))
    ELSE IF fills = <<>> THEN ScanAll(held, fills, TRUE, out)
    ELSE ScanAll(held \o Head(fills), Tail(fills), FALSE, out)

\* the bytes of the inputs
InputBytes == {"a", " ", "/", "*", "\n"}

InitScanner ==
    /\ source = <<>>
    /\ fillEnd = 0
    /\ scanTokens = <<>>
    /\ wholeTokens = <<>>
    /\ ParserFresh
    /\ SolverIdle
    /\ ExprIdle
    /\ MacrosIdle
    /\ PlatformIdle
    /\ GrouperIdle

\* the input is one byte longer
AppendByte ==
    /\ fillEnd = 0
    /\ Len(source) < MaxBytes
    /\ \E b \in InputBytes : source' = Append(source, b)
    /\ UNCHANGED <<fillEnd, scanTokens, wholeTokens, solverVars, parserVars, inputVars,
                   exprVars, macroVars, platformVars, grouperVars>>

\* the input is scanned to its end twice: from a reader whose first Read
\* delivers k bytes and whose second Read delivers the rest, and from a
\* reader whose first Read delivers all of it
ScanInput ==
    /\ fillEnd = 0
    /\ source # <<>>
    /\ \E k \in 1..Len(source) :
          /\ fillEnd' = k
          /\ scanTokens' =
                ScanAll(<<>>, IF k = Len(source) THEN <<source>>
                              ELSE <<SubSeq(source, 1, k),
                                     SubSeq(source, k + 1, Len(source))>>,
                        FALSE, <<>>)
    /\ wholeTokens' = ScanAll(<<>>, <<source>>, FALSE, <<>>)
    /\ UNCHANGED <<source, solverVars, parserVars, inputVars, exprVars, macroVars,
                   platformVars, grouperVars>>

NextScanner ==
    \/ AppendByte
    \/ ScanInput

SpecScanner == InitScanner /\ [][NextScanner]_vars

-----------------------------------------------------------------------------
(* Properties of the solver *)

Called == phase \in {"called", "calledNil", "calledOrNot", "calledAndNot"}

\* p comes strictly before q in the platform order: by os, then by arch
PlatformBefore(p, q) ==
    \/ StrRank(p.OS) < StrRank(q.OS)
    \/ StrRank(p.OS) = StrRank(q.OS) /\ StrRank(p.Arch) < StrRank(q.Arch)

Ascending(items) ==
    \A i, j \in 1..Len(items) : i < j => PlatformBefore(items[i], items[j])

ItemSet(items) == {items[i] : i \in 1..Len(items)}

\* the platforms of pm on which e is true by direct recursive evaluation
TruePlatforms(e, pm) == {p \in DOMAIN pm : Eval(e, pm[p])}

\* r is the non-nil list of exactly the platforms of S, ascending, each once
IsSortedListOf(r, S) ==
    /\ ~r.isNil /\ ~r.panic
    /\ ItemSet(r.items) = S
    /\ Len(r.items) = Cardinality(S)
    /\ Ascending(r.items)

\* C1: for a non-nil expression the solver returns exactly the platforms on
\* which the expression evaluates true by direct evaluation, each once, in
\* ascending platform order.
Thm_C1_SolverAgreesWithEval ==
    (Called /\ query # NilExpr)
        => IsSortedListOf(result, TruePlatforms(query, platformMacros))

\* C1, a case: a call on Not(And(..)) or Not(Or(..)) returned two platforms
Wit_C1_DeMorganTwoPlatforms ==
    /\ phase = "called"
    /\ query.tag = "Not"
    /\ query.x.tag \in {"And", "Or"}
    /\ Len(result.items) = 2

\* C2: the solver returns nil exactly when the expression is nil; a non-nil
\* expression that matches no platform yields an empty, non-nil list.
Thm_C2_NilIffNilExpr ==
    Called =>
        /\ result.isNil <=> (query = NilExpr)
        /\ (query # NilExpr /\ TruePlatforms(query, platformMacros) = {})
              => result = Slice(<<>>)

\* C2, a case: a call on a non-nil expression over a non-empty map returned
\* the empty, non-nil list
Wit_C2_EmptyNotNil ==
    /\ phase = "called"
    /\ query # NilExpr
    /\ DOMAIN platformMacros # {}
    /\ result = Slice(<<>>)

\* C3: e and Not(e) partition the platforms: Or(e, Not(e)) yields every key
\* of the map in order, And(e, Not(e)) yields the empty list.
Thm_C3_ExcludedMiddle ==
    /\ phase = "calledOrNot" =>
          /\ query = Or(expr, Not(expr))
          /\ IsSortedListOf(result, DOMAIN platformMacros)
    /\ phase = "calledAndNot" =>
          /\ query = And(expr, Not(expr))
          /\ result = Slice(<<>>)

\* C3, a case: a comparison true on some platform; And of it and its Not
\* matched nothing
Wit_C3_CompareAndNot ==
    /\ phase = "calledAndNot"
    /\ expr.tag = "Compare"
    /\ \E p \in DOMAIN platformMacros : Eval(expr, platformMacros[p])
    /\ result = Slice(<<>>)

\* the operator each comparison operator is flipped to
FlippedOp ==
    [op \in CompareOps |->
        CASE op = "==" -> "!=" [] op = "!=" -> "=="
          [] op = "<" -> ">="  [] op = ">=" -> "<"
          [] op = "<=" -> ">"  [] op = ">" -> "<="]

\* C4: Negate keeps both operands, flips the operator, leaves the receiver
\* unchanged, and applied twice gives the original comparison back.
Thm_C4_NegateFlips ==
    phase = "negated" =>
        /\ query.op \in CompareOps
        /\ result.neg.tag = "Compare"
        /\ result.neg.left = query.left
        /\ result.neg.right = query.right
        /\ result.neg.op = FlippedOp[query.op]
        /\ expr = query
        /\ result.negneg = query

\* C4, a case: Negate on a <= comparison returned a > comparison
Wit_C4_NegatedLessEqual ==
    /\ phase = "negated"
    /\ query.op = "<="
    /\ result.neg.op = ">"

\* the integer an operand stands for under a macro set: 0 for an absent macro
OperandValue(v, macros) ==
    IF v.kind = "Constant" THEN v.v
    ELSE IF v.name \in DOMAIN macros THEN macros[v.name] ELSE 0

UndefinedEverywhere(n) == \A p \in DOMAIN platformMacros : n \notin DOMAIN platformMacros[p]

\* C5: a comparison resolves an identifier to the macro's value, or to 0 when
\* the macro is absent, a constant to itself, and applies the operator; so
\* for X undefined everywhere `X == 0` matches all platforms and `0 != X`
\* none, and `X == X` matches all platforms whatever X is.
Thm_C5_CompareResolvesUndefinedAsZero ==
    (phase = "called" /\ query.tag = "Compare") =>
        /\ ItemSet(result.items) =
              {p \in DOMAIN platformMacros :
                  LET lv == OperandValue(query.left, platformMacros[p])
                      rv == OperandValue(query.right, platformMacros[p])
                  IN  CASE query.op = "==" -> lv = rv
                        [] query.op = "!=" -> ~(lv = rv)
                        [] query.op = "<"  -> lv < rv
                        [] query.op = "<=" -> ~(rv < lv)
                        [] query.op = ">"  -> rv < lv
                        [] query.op = ">=" -> ~(lv < rv)}
        /\ \A n \in MacroNames :
              /\ (query = Compare(Ident(n), "==", Constant(0)) /\ UndefinedEverywhere(n))
                    => ItemSet(result.items) = DOMAIN platformMacros
              /\ (query = Compare(Constant(0), "!=", Ident(n)) /\ UndefinedEverywhere(n))
                    => result.items = <<>>
              /\ query = Compare(Ident(n), "==", Ident(n))
                    => ItemSet(result.items) = DOMAIN platformMacros

\* C5, a case: 0 != B, with B undefined on both platforms, matched nothing
Wit_C5_ZeroNotEqualUndefined ==
    /\ phase = "called"
    /\ query = Compare(Constant(0), "!=", Ident("B"))
    /\ UndefinedEverywhere("B")
    /\ Cardinality(DOMAIN platformMacros) = 2
    /\ result.items = <<>>

-----------------------------------------------------------------------------
(* Properties of the parser *)

\* the directive (or other token) the latest iteration of parse's loop read
LastDirective == FirstToken(lastChunk)

\* the operands the latest iteration read after its first token
LastOperands == OperandsOf(lastChunk)

\* the latest iteration read the line end that closes its directive's line
LineEnded == Len(lastChunk) > 0 /\ lastChunk[Len(lastChunk)] = EOL

\* token t can stand as an operand of a comparison
IsValueToken(t) == IsIdentifier(t) \/ ParseIntLiteral(t).ok

\* the expression tokens ts hold an unbalanced parenthesis, or a comparison
\* with an operand that is neither an identifier nor an integer literal
IllFormedExpr(ts) ==
    \/ Cardinality({i \in 1..Len(ts) : ts[i] = "("})
          # Cardinality({i \in 1..Len(ts) : ts[i] = ")"})
    \/ \E i \in 2..Len(ts) :
          /\ IsBinaryCompareOperator(ts[i])
          /\ \/ ~IsValueToken(ts[i - 1])
             \/ i < Len(ts) /\ ~IsValueToken(ts[i + 1])

\* the input ended inside the latest directive: before the operand of an
\* #include or of an #ifdef-like directive, or before the end of the line of
\* an #if / #elif
EndedInsideDirective ==
    /\ inputEnd = "eof"
    /\ \/ LastDirective = "#include" /\ LastOperands \in {<<>>, <<"<">>}
       \/ /\ LastDirective \in {"#ifdef", "#ifndef", "#elifdef", "#elifndef"}
          /\ LastOperands = <<>>
       \/ LastDirective \in {"#if", "#elif"} /\ ~LineEnded

Cex_C7_NeverPanics ==
    status # "panic"

RECURSIVE LeftNestedAnd(_)
\* And(...And(And(c1, c2), c3)..., cn) for the non-empty sequence cs
LeftNestedAnd(cs) ==
    IF Len(cs) = 1 THEN cs[1]
    ELSE And(LeftNestedAnd(SubSeq(cs, 1, Len(cs) - 1)), cs[Len(cs)])

\* C8: the condition recorded on an include is nil exactly when no #if
\* group is open; otherwise it is the left-nested And of the active branch
\* conditions of the open groups, one per group, outermost first.
Thm_C8_IncludeCondition ==
    [][Len(includes') = Len(includes) + 1 =>
          /\ Len(conditionStack) = Len(openGroups)
          /\ (includes'[Len(includes')].Condition = NilExpr) <=> (openGroups = <<>>)
          /\ openGroups # <<>> =>
                includes'[Len(includes')].Condition = LeftNestedAnd(conditionStack)]_vars

\* C8, a case: an include was recorded inside three open groups
Wit_C8_IncludeAtDepthThree ==
    /\ LastDirective = "#include"
    /\ status = "running"
    /\ Len(openGroups) = 3
    /\ Len(conditionStack) = 3
    /\ includes # <<>>
    /\ includes[Len(includes)].Condition =
          And(And(conditionStack[1], conditionStack[2]), conditionStack[3])

RECURSIVE OrOfSeen(_)
\* Or(e1..ek) for the non-empty sequence es, built from e1 on
OrOfSeen(es) ==
    IF Len(es) = 1 THEN es[1]
    ELSE Or(OrOfSeen(SubSeq(es, 1, Len(es) - 1)), es[Len(es)])

\* the top entry of the non-empty stack s
Top(s) == s[Len(s)]

\* the latest iteration, now taking place, handles a directive of ds inside
\* an open group and parse goes on
BranchStep(ds) ==
    /\ nRead' > nRead
    /\ FirstToken(lastChunk') \in ds
    /\ openGroups # <<>>
    /\ status' = "running"

\* C9 as stated: in a group whose raw branch expressions so far are e1..ek,
\* an #elif-like directive with raw expression e makes And(e, Not(Or(e1..ek)))
\* the group's active condition and records e as seen; an #else makes
\* Not(Or(e1..ek)) the active condition. Other groups are left alone.
Cex_C9_BranchConditions ==
    [][/\ BranchStep(ElifDirectives) =>
            /\ conditionStack' =
                  [conditionStack EXCEPT ![Len(conditionStack)] =
                      And(RawBranch(lastChunk'), Not(OrOfSeen(Top(openGroups))))]
            /\ exprGroupStack' =
                  [exprGroupStack EXCEPT ![Len(exprGroupStack)] =
                      Append(@, RawBranch(lastChunk'))]
       /\ BranchStep({"#else"}) =>
            conditionStack' =
                [conditionStack EXCEPT ![Len(conditionStack)] =
                    Not(OrOfSeen(Top(openGroups)))]]_vars

\* C11 as stated: an #elif-like directive met after the #else of its group
\* is ignored: parse goes on without an error and the condition stack and
\* the group's seen list stay as the #else left them.
Cex_C11_ElifAfterElseIgnored ==
    [][(/\ nRead' > nRead
        /\ FirstToken(lastChunk') \in ElifDirectives
        /\ elseMet # <<>>
        /\ Top(elseMet)) =>
          /\ status' = "running"
          /\ conditionStack' = conditionStack
          /\ exprGroupStack' = exprGroupStack]_vars

\* the characters of the tokens that follow #include in the inputs, and of
\* the paths recorded for them
Chars(t) ==
    CASE t = "\"a.h\"" -> <<"\"", "a", ".", "h", "\"">>
      [] t = "\"a.h" -> <<"\"", "a", ".", "h">>
      [] t = "a.h\"" -> <<"a", ".", "h", "\"">>
      [] t = "a.h" -> <<"a", ".", "h">>
      [] t = "<" -> <<"<">>
      [] t = "A" -> <<"A">>

RECURSIVE StripLeft(_)
\* cs without its leading double quotes
StripLeft(cs) ==
    IF cs # <<>> /\ Head(cs) = "\"" THEN StripLeft(Tail(cs)) ELSE cs

RECURSIVE StripRight(_)
\* cs without its trailing double quotes
StripRight(cs) ==
    IF cs # <<>> /\ cs[Len(cs)] = "\"" THEN StripRight(SubSeq(cs, 1, Len(cs) - 1))
    ELSE cs

\* a double quote occurs in token t
ContainsQuote(t) == \E i \in 1..Len(Chars(t)) : Chars(t)[i] = "\""

\* the latest iteration, now taking place, records an include
IncludeStep == Len(includes') = Len(includes) + 1

\* the include the latest iteration records
NewInclude == includes'[Len(includes')]

\* the token that follows #include in the iteration now taking place
IncludeOperand == OperandsOf(lastChunk')[1]

\* the token that holds the path: the one after `<`, else the operand
IncludePathToken ==
    IF IncludeOperand = "<" THEN OperandsOf(lastChunk')[2] ELSE IncludeOperand

\* C12 as stated: the include is a system include exactly when the token
\* after #include is `<` or has no double quote; its path is the token after
\* `<` in the bracket form, else the token without its outer double quotes.
Cex_C12_BracketPathIsRawToken ==
    [][IncludeStep =>
          /\ NewInclude.IsSystemInclude
                <=> (IncludeOperand = "<" \/ ~ContainsQuote(IncludeOperand))
          /\ Chars(NewInclude.Path) =
                IF IncludeOperand = "<" THEN Chars(IncludePathToken)
                ELSE StripRight(StripLeft(Chars(IncludePathToken)))]_vars

\* C12, amended: the include is a system include exactly when the token
\* after #include is `<` or has no double quote; its path is the token after
\* `<` in the bracket form, else the token itself, in both forms without its
\* leading and trailing double quotes.
Thm_C12_IncludeKindAndPath ==
    [][IncludeStep =>
          /\ FirstToken(lastChunk') = "#include"
          /\ NewInclude.IsSystemInclude
                <=> (IncludeOperand = "<" \/ ~ContainsQuote(IncludeOperand))
          /\ Chars(NewInclude.Path) = StripRight(StripLeft(Chars(IncludePathToken)))
          /\ SubSeq(includes', 1, Len(includes)) = includes]_vars

\* C12, a case: `#include "a.h` (no closing quote) gave the non-system
\* include a.h after `#include A` had given the system include A
Wit_C12_MalformedIncludes ==
    /\ lastChunk = <<"#include", "\"a.h">>
    /\ Len(includes) = 2
    /\ includes[1].Path = "A" /\ includes[1].IsSystemInclude
    /\ includes[2].Path = "a.h" /\ ~includes[2].IsSystemInclude

\* the latest token of the input read so far is `int`, outside a directive
PrecededByInt ==
    /\ lastChunk # <<>>
    /\ lastChunk[Len(lastChunk)] = "int"
    /\ FirstToken(lastChunk) \notin HashTokens

\* C13 as stated: has_main becomes true exactly when the tokens `main`, `(`
\* are read right after a token `int`, whatever came before the `int`.
Cex_C13_EveryIntMainParenSetsHasMain ==
    [][nRead' > nRead =>
          (hasMain' <=> (hasMain \/ (PrecededByInt /\ lastChunk' = <<"main", "(">>)))]_vars

StrayDirectives == {"#endif", "#else"} \cup ElifDirectives

\* C10: an #endif, #else or #elif-like directive met while no group is open
\* is ignored: both stacks stay as they are, parse goes on without an error,
\* and the guard of the includes that follow is the one from before.
Thm_C10_StrayDirectiveIgnored ==
    [][(/\ nRead' > nRead
        /\ FirstToken(lastChunk') \in StrayDirectives
        /\ openGroups = <<>>) =>
          /\ conditionStack' = conditionStack
          /\ exprGroupStack' = exprGroupStack
          /\ includes' = includes
          /\ status' = "running"
          /\ err' = ""
          /\ CurrentGuard(conditionStack') = CurrentGuard(conditionStack)]_vars

\* C10, a case: an #else met with no group open, after an include, was
\* passed over
Wit_C10_StrayElseAfterInclude ==
    /\ status = "running"
    /\ lastChunk = <<"#else">>
    /\ openGroups = <<>>
    /\ conditionStack = <<>>
    /\ exprGroupStack = <<>>
    /\ Len(includes) = 1

-----------------------------------------------------------------------------
(* Properties of the expression parser *)

\* C14: parseOr follows the grammar or := and ('||' and)*,
\* and := unary ('&&' unary)*, unary := '!' unary | '(' or ')' | defined |
\* primary: on every input derived from the grammar it reads all the tokens
\* and returns the expression of the derivation, in which `!` binds tighter
\* than `&&`, `&&` tighter than `||`, both group to the left, parentheses
\* group first, and `defined X`, `defined(X)` both give Defined(X).
Thm_C14_ParserFollowsGrammar ==
    exprInput # <<>> =>
        /\ parsed.kind = "ok"
        /\ parsed.idx = Len(exprInput) + 1
        /\ parsed.e = DerivedExpr(derivation)

\* C14, a case: `( A || ! B ) && defined ( B )` gave
\* And(Or(A, Not(B)), Defined(B)), where `A || ! B && defined ( B )` would
\* give Or(A, And(Not(B), Defined(B)))
Wit_C14_ParenthesesOverPrecedence ==
    /\ exprInput = <<"(", "A", "||", "!", "B", ")", "&&", "defined", "(", "B", ")">>
    /\ parsed.e = And(Or(Primary("A"), Not(Primary("B"))), Defined("B"))

\* the value the token tok has in an #if under macros: its literal value,
\* or the value of the macro of its name, 0 when there is none
TokenValue(tok, macros) ==
    IF ParseIntLiteral(tok).ok THEN ParseIntLiteral(tok).v
    ELSE IF tok \in DOMAIN macros THEN macros[tok] ELSE 0

\* C23 as stated: an expression that is one primary token is true under a
\* macro set exactly when the token's value is not zero.
Cex_C23_PrimaryIsNonZero ==
    (Len(exprInput) = 1 /\ parsed.kind = "ok") =>
        \A macros \in MacroSets :
            Eval(parsed.e, macros) <=> (TokenValue(exprInput[1], macros) # 0)

\* C25 as stated: the text of a parsed expression parses to an
\* expression that has the same truth value under every macro set.
Cex_C25_ReparseEquivalent ==
    (exprInput # <<>> /\ parsed.kind = "ok") =>
        /\ reparsed.kind = "ok"
        /\ \A macros \in MacroSets : Eval(reparsed.e, macros) <=> Eval(parsed.e, macros)

-----------------------------------------------------------------------------
(* Properties of ParseMacros *)

MacrosCalled == macrosOut # MacrosNotCalled

\* definition d without the -D it may start with
Body(d) == IF Len(d) >= 2 /\ SubSeq(d, 1, 2) = <<"-", "D">> THEN SubSeq(d, 3, Len(d)) ELSE d

\* the INT of the specification: a numeral followed by any run of U, u, L, l
SpecInt(cs) ==
    \E k \in 1..Len(cs) :
        /\ NumeralMatch(SubSeq(cs, 1, k))
        /\ \A i \in (k + 1)..Len(cs) : cs[i] \in {"U", "u", "L", "l"}

\* the digits of the numeral cs starts with, its base prefix left out
NumeralDigits(cs) ==
    LET hex == Len(cs) >= 2 /\ cs[2] \in {"x", "X"}
        from == IF hex THEN 3 ELSE 1
        digits == IF hex THEN HexDigits ELSE DecimalDigits
        last == CHOOSE k \in (from - 1)..Len(cs) :
                    /\ \A i \in from..k : cs[i] \in digits
                    /\ k < Len(cs) => cs[k + 1] \notin digits
    IN  SubSeq(cs, from, last)

\* the base of a C integer literal: 0x hexadecimal, leading 0 octal, else decimal
LiteralBase(cs) ==
    IF Len(cs) >= 2 /\ cs[2] \in {"x", "X"} THEN 16 ELSE IF cs[1] = "0" THEN 8 ELSE 10

RECURSIVE Horner(_, _, _)
\* the number with the digits ds in base `base`, read from the left on top of acc
Horner(base, ds, acc) ==
    IF ds = <<>> THEN acc ELSE Horner(base, Tail(ds), acc * base + DigitValue(Head(ds)))

\* the value of the C integer literal cs
LiteralValue(cs) == Horner(LiteralBase(cs), NumeralDigits(cs), 0)

\* a C integer suffix: at most one u or U, and at most one of l, ll, L, LL
CSuffix(sfx) ==
    LET us == {i \in 1..Len(sfx) : sfx[i] \in {"u", "U"}}
        ls == {i \in 1..Len(sfx) : sfx[i] \in {"l", "L"}}
    IN  /\ us \cup ls = 1..Len(sfx)
        /\ Cardinality(us) <= 1
        /\ Cardinality(ls) <= 2
        /\ \A i, j \in ls : sfx[i] = sfx[j] /\ i - j \in {-1, 0, 1}

\* a C integer literal that fits a signed 64-bit integer
CInt(cs) ==
    /\ \E k \in 1..Len(cs) :
          /\ NumeralMatch(SubSeq(cs, 1, k))
          /\ CSuffix(SubSeq(cs, k + 1, Len(cs)))
    /\ FitsInt64(LiteralBase(cs), DropZeros(NumeralDigits(cs)))

\* d has the shape [-D]NAME, or [-D]NAME=INT for the integers IsInt
HasShape(d, IsInt(_)) ==
    \/ MacroIdentifierMatch(Body(d))
    \/ \E k \in 1..Len(Body(d)) :
          /\ Body(d)[k] = "="
          /\ MacroIdentifierMatch(SubSeq(Body(d), 1, k - 1))
          /\ IsInt(SubSeq(Body(d), k + 1, Len(Body(d))))

\* the NAME of a definition of the shape
ShapeName(d) ==
    IF \E k \in 1..Len(Body(d)) : Body(d)[k] = "="
    THEN SubSeq(Body(d), 1, (CHOOSE k \in 1..Len(Body(d)) : Body(d)[k] = "=") - 1)
    ELSE Body(d)

\* the value a definition of the shape gives its NAME
ShapeValue(d) ==
    IF \E k \in 1..Len(Body(d)) : Body(d)[k] = "="
    THEN LiteralValue(SubSeq(Body(d), Len(ShapeName(d)) + 2, Len(Body(d))))
    ELSE 1

\* ParseMacros succeeded with a map that holds exactly the names of the
\* list, each with the value of the last definition of that name
MacrosAsDefined ==
    /\ macrosOut.err = ""
    /\ ~macrosOut.isNil
    /\ DOMAIN macrosOut.out = {ShapeName(defList[i]) : i \in 1..Len(defList)}
    /\ \A i \in 1..Len(defList) :
          (\A j \in (i + 1)..Len(defList) : ShapeName(defList[j]) # ShapeName(defList[i]))
             => macrosOut.out[ShapeName(defList[i])] = ShapeValue(defList[i])

\* C15 as stated: on a list of definitions all of the shape [-D]NAME or
\* [-D]NAME=INT, INT a numeral followed by any U/L suffixes, ParseMacros
\* succeeds and maps every NAME to 1 or to the value of its INT.
Cex_C15_EverySpecIntAccepted ==
    (MacrosCalled /\ \A i \in 1..Len(defList) : HasShape(defList[i], SpecInt))
        => MacrosAsDefined

\* C15, amended: on a list of definitions all of the shape [-D]NAME or
\* [-D]NAME=INT, INT a numeral with a C integer suffix (at most one u/U, at
\* most one of l, ll, L, LL) and a value of at most 2^63 - 1, ParseMacros
\* succeeds; the keys of its map are exactly the NAMEs, a bare NAME maps to
\* 1 and NAME=INT to the value of INT read as a C literal, the last
\* definition of a name counting.
Thm_C15_MacrosOfWellFormedDefs ==
    (MacrosCalled /\ \A i \in 1..Len(defList) : HasShape(defList[i], CInt))
        => MacrosAsDefined

\* C15, a case: -DF=017 and _g1=0x1F gave F = 15 and _g1 = 31
Wit_C15_OctalAndHex ==
    /\ defList = << <<"-", "D", "F", "=", "0", "1", "7">>,
                    <<"_", "g", "1", "=", "0", "x", "1", "F">> >>
    /\ macrosOut.err = ""
    /\ macrosOut.out[<<"F">>] = 15
    /\ macrosOut.out[<<"_", "g", "1">>] = 31

\* C16 as stated: ParseMacros returns an error whenever some definition of
\* the list is not of the shape [-D]NAME or [-D]NAME=INT.
Cex_C16_ErrorOutsideShape ==
    (MacrosCalled /\ \E i \in 1..Len(defList) : ~HasShape(defList[i], SpecInt))
        => macrosOut.err # ""

-----------------------------------------------------------------------------
(* Properties of package platform *)

ParseCalled == platformParsed # PlatformNotCalled

\* the positions of the words of the string handed to Parse
WordPositions == {i \in 1..Len(platformInput) : platformInput[i] # "/"}

\* the first and the last word of the string handed to Parse
OsWord == platformInput[CHOOSE i \in WordPositions : \A j \in WordPositions : i <= j]
ArchWord == platformInput[CHOOSE i \in WordPositions : \A j \in WordPositions : j <= i]

\* the OS and the architecture an alias stands for
CanonicalOs(w) == IF w = "macos" THEN "osx" ELSE w
CanonicalArch(w) ==
    CASE w = "arm" -> "aarch32" [] w = "arm64" -> "aarch64" [] w = "amd64" -> "x86_64"
      [] OTHER -> w

X86_64Macros == {"__x86_64__", "__x86_64", "__amd64", "__amd64__"}
Aarch64Macros == {"__aarch64__", "__arm64", "__arm64__"}

\* the platforms of the table on which some macro of names is defined
DefinedOn(names) ==
    {q \in DOMAIN KnownPlatformMacros : names \cap DOMAIN KnownPlatformMacros[q] # {}}

\* C18 as stated: in the table init has built, the x86-64 macros are defined
\* only on platforms of arch x86_64 and on every catalogued OS with arch
\* x86_64, and the aarch64 macros only on platforms of arch aarch64.
Cex_C18_ArchMacrosFollowArch ==
    initPc = Len(InitCalls) =>
        /\ \A q \in DefinedOn(X86_64Macros) : q.Arch = "x86_64"
        /\ \A os \in allKnownOs :
              /\ Platform(os, "x86_64") \in DOMAIN KnownPlatformMacros
              /\ X86_64Macros \subseteq DOMAIN KnownPlatformMacros[Platform(os, "x86_64")]
        /\ \A q \in DefinedOn(Aarch64Macros) : q.Arch = "aarch64"

-----------------------------------------------------------------------------
(* Properties of the source grouper *)

\* the ids of the output groups, and the group of an id
OutputIds == DOMAIN sourceGroups.out
OutputGroup(id) == sourceGroups.out[id]

\* the members of the sequence seq
Range(seq) == {seq[i] : i \in 1..Len(seq)}

\* no member of the sequence seq occurs twice in it
NoDuplicates(seq) == Cardinality(Range(seq)) = Len(seq)

\* C19: the output groups partition the input files: every input file is
\* among the sources of exactly one group, no file occurs twice, and every
\* source of a group is an input file.
Thm_C19_GroupsPartitionFiles ==
    sourceGroups.called =>
        /\ \A f \in files :
              Cardinality({id \in OutputIds : f \in Range(OutputGroup(id).sources)}) = 1
        /\ \A id \in OutputIds :
              /\ NoDuplicates(OutputGroup(id).sources)
              /\ Range(OutputGroup(id).sources) \subseteq files

\* C19, a case: a.h and b.h include each other, a.c and c.h stand by: the
\* merged group a holds a.c, a.h, b.h and the group c holds c.h
Wit_C19_MergedCycleAndBystander ==
    /\ sourceGroups.called
    /\ files = FileNames
    /\ PlainInclude("b.h") \in info["a.h"]
    /\ PlainInclude("a.h") \in info["b.h"]
    /\ OutputIds = {"a", "c"}
    /\ OutputGroup("a").sources = <<"a.c", "a.h", "b.h">>
    /\ OutputGroup("c").sources = <<"c.h">>

\* the output group that holds file f
GroupOfFile(f) == CHOOSE id \in OutputIds : f \in Range(OutputGroup(id).sources)

\* C20: the depends_on of every output group is sorted without duplicates,
\* leaves out the group's own id and names output groups only; in merge
\* mode an edge made by an include names the output group that holds the
\* included file, also when that file's own group was merged into another.
Thm_C20_DependsOnWellFormed ==
    sourceGroups.called =>
        /\ \A id \in OutputIds :
              /\ \A i, j \in 1..Len(OutputGroup(id).dependsOn) :
                    i < j => NameRank(OutputGroup(id).dependsOn[i])
                                < NameRank(OutputGroup(id).dependsOn[j])
              /\ id \notin Range(OutputGroup(id).dependsOn)
              /\ Range(OutputGroup(id).dependsOn) \subseteq OutputIds
        /\ cycleMode = "merge" =>
              \A f \in files : \A i \in info[f] :
                  (/\ ~i.IsSystemInclude
                   /\ i.Condition = NilExpr
                   /\ i.Path \in files
                   /\ GroupOfFile(f) # GroupOfFile(i.Path))
                     => GroupOfFile(i.Path) \in Range(OutputGroup(GroupOfFile(f)).dependsOn)

\* C20, a case: c.h includes b.h, whose group b was merged into a: the
\* group c depends on a
Wit_C20_EdgeToAbsorbedMember ==
    /\ sourceGroups.called
    /\ cycleMode = "merge"
    /\ {"a.h", "b.h", "c.h"} \subseteq files
    /\ PlainInclude("b.h") \in info["a.h"]
    /\ PlainInclude("a.h") \in info["b.h"]
    /\ info["c.h"] = {PlainInclude("b.h")}
    /\ OutputGroup("a").subGroups = <<"a", "b">>
    /\ OutputGroup("c").dependsOn = <<"a">>

\* the position in toks of its first token that is not a line end
FirstIndex(toks) ==
    CHOOSE i \in 1..Len(toks) : toks[i] # EOL /\ \A j \in 1..(i - 1) : toks[j] = EOL

\* the line ends of toks after the directive that are not joined to the
\* next line by a `\` right before them
LineEnds(toks) ==
    {i \in (FirstIndex(toks) + 1)..Len(toks) : toks[i] = EOL /\ toks[i - 1] # Backslash}

\* the latest iteration, now taking place, handles an #if, or an #elif
\* inside an open group, and parse goes on
ExprStep ==
    /\ nRead' > nRead
    /\ status' = "running"
    /\ \/ FirstToken(lastChunk') = "#if"
       \/ FirstToken(lastChunk') = "#elif" /\ conditionStack # <<>> /\ exprGroupStack # <<>>

\* C24 as stated: the tokens read for the expression of an #if / #elif end
\* with the first line end that no `\` precedes: the directive reads its
\* logical line and nothing of the lines after it.
Cex_C24_ExprIsLogicalLine ==
    [][ExprStep =>
          /\ LineEnds(lastChunk') # {}
          /\ \A i \in LineEnds(lastChunk') : i = Len(lastChunk')]_vars

\* the positions of toks at which a directive starts a line
DirectiveLineStarts(toks) ==
    {i \in 2..Len(toks) :
        /\ toks[i] \in HashTokens
        /\ toks[i - 1] = EOL
        /\ (i > 2 => toks[i - 2] # Backslash)}

\* C30 as stated: a directive that starts a line is dispatched: among the
\* tokens one iteration of parse reads, it is the token the iteration
\* starts with, never a token read after it as an operand or after `main`.
Cex_C30_LineStartDirectiveDispatched ==
    [][nRead' > nRead =>
          \A i \in DirectiveLineStarts(lastChunk') : i = FirstIndex(lastChunk')]_vars

\* the entries of the stack s below its top
BelowTop(s) == SubSeq(s, 1, Len(s) - 1)

\* the latest iteration, now taking place, starts with a token of ds and
\* parse goes on
DirectiveStep(ds) ==
    /\ nRead' > nRead
    /\ FirstToken(lastChunk') \in ds
    /\ status' = "running"

\* C26: while parse goes on the condition stack and the group stack have the
\* same depth and every group holds a seen expression; #if, #ifdef and
\* #ifndef push one entry on each, #endif pops one entry from each, or from
\* neither when both are empty, #else and the #elif family keep both depths
\* and all entries below the tops, and every other token leaves both stacks
\* as they are.
Thm_C26_StacksInLockstep ==
    [][/\ status' = "running" =>
            /\ Len(conditionStack') = Len(exprGroupStack')
            /\ \A g \in 1..Len(exprGroupStack') : exprGroupStack'[g] # <<>>
       /\ DirectiveStep(IfDirectives) =>
            /\ Len(conditionStack') = Len(conditionStack) + 1
            /\ BelowTop(conditionStack') = conditionStack
            /\ BelowTop(exprGroupStack') = exprGroupStack
       /\ DirectiveStep({"#endif"}) =>
            IF conditionStack = <<>>
            THEN conditionStack' = <<>> /\ exprGroupStack' = <<>>
            ELSE /\ conditionStack' = BelowTop(conditionStack)
                 /\ exprGroupStack' = BelowTop(exprGroupStack)
       /\ DirectiveStep(ElifDirectives \cup {"#else"}) =>
            /\ Len(conditionStack') = Len(conditionStack)
            /\ BelowTop(conditionStack') = BelowTop(conditionStack)
            /\ BelowTop(exprGroupStack') = BelowTop(exprGroupStack)
       /\ DirectiveStep({"#include", "#define", "int", "main"}) =>
            /\ conditionStack' = conditionStack
            /\ exprGroupStack' = exprGroupStack]_vars

\* C26, a case: inside a group a second group has met its #else: both
\* stacks are two deep and the inner group has seen two expressions
Wit_C26_ElseInNestedGroup ==
    /\ status = "running"
    /\ Len(conditionStack) = 2
    /\ Len(exprGroupStack) = 2
    /\ elseMet = <<FALSE, TRUE>>
    /\ Len(exprGroupStack[2]) = 2

\* the branches of the open group g whose condition holds under macros
TrueBranches(g, macros) ==
    {k \in 1..Len(branchConds[g]) : Eval(branchConds[g][k], macros)}

\* C28: in every open group, up to and including its #else, the conditions
\* the parser made active for the branches exclude each other under every
\* macro set: at most one holds, and exactly one once the #else has been
\* met.
Thm_C28_BranchesExclusive ==
    \A g \in 1..Len(branchConds) : \A macros \in MacroSets :
        /\ Cardinality(TrueBranches(g, macros)) <= 1
        /\ elseMet[g] => Cardinality(TrueBranches(g, macros)) = 1

\* C28, a case: a group with an #ifdef, an #elifndef and an #else branch
Wit_C28_ThreeBranches ==
    /\ status = "running"
    /\ elseMet = <<TRUE>>
    /\ Len(branchConds) = 1
    /\ Len(branchConds[1]) = 3
    /\ branchConds[1][1] = Defined("A")
    /\ branchConds[1][2] = And(Not(Defined("A")), Not(Defined("A")))

\* C29 as stated: the tokens scanned do not depend on how the reader
\* delivers the input: with the input cut in two Reads they are the tokens
\* of the input delivered by one Read.
Cex_C29_TokensIndependentOfFills ==
    fillEnd > 0 => scanTokens = wholeTokens

\* C27 as stated: every key of the table has an os of the OS catalogue and
\* an arch that is of the architecture catalogue or empty.
Cex_C27_KeysHaveKnownOs ==
    \A q \in DOMAIN KnownPlatformMacros :
        q.OS \in allKnownOs /\ q.Arch \in allKnownArch \cup {""}

\* C27: every key of the table is drawn from the catalogues: its os is of
\* the OS catalogue or empty, its arch of the architecture catalogue or
\* empty, and not both are empty; a key with an empty os stands for an
\* architecture on every OS, as a key with an empty arch stands for an OS on
\* every architecture.
Thm_C27_KeysFromCatalogues ==
    \A q \in DOMAIN KnownPlatformMacros :
        /\ q.OS \in allKnownOs \cup {""}
        /\ q.Arch \in allKnownArch \cup {""}
        /\ q # Platform("", "")

\* C27, a case: init is over and the table has a key for an OS alone, a
\* key for an architecture alone and a key for a pair
Wit_C27_SentinelKeys ==
    /\ initPc = Len(InitCalls)
    /\ {Platform("linux", ""), Platform("", "aarch64"), Platform("linux", "aarch64")}
          \subseteq DOMAIN KnownPlatformMacros

RECURSIVE DependsWithin(_, _, _)
\* the output group t is reached from the output group s over at least one
\* and at most n depends_on edges
DependsWithin(s, t, n) ==
    /\ n > 0
    /\ \E d \in Range(OutputGroup(s).dependsOn) :
          d \in OutputIds /\ (d = t \/ DependsWithin(d, t, n - 1))

IncludesPlainly(f, g) ==
    \E i \in info[f] : ~i.IsSystemInclude /\ i.Condition = NilExpr /\ i.Path = g

\* files f and g share a base name, or f includes g
Linked(f, g) == BaseName(f) = BaseName(g) \/ IncludesPlainly(f, g)

RECURSIVE LinkedFrom(_, _)
\* the files reached from the files of the set seen over at most n links
LinkedFrom(seen, n) ==
    IF n = 0 THEN seen
    ELSE LinkedFrom(seen \cup {h \in files : \E g \in seen : Linked(g, h)}, n - 1)

\* the files that reach f and are reached from f: the files of f's component
Unit(f) ==
    {g \in LinkedFrom({f}, Cardinality(files)) : f \in LinkedFrom({g}, Cardinality(files))}

\* the ids of the initial groups of the files of the component unit
UnitIds(unit) == {BaseName(g) : g \in unit}

\* the ids of the output groups that the files of the component unit
\* include from outside the component
UnitDependsOn(unit) ==
    {MinName(UnitIds(Unit(h))) : h \in {g \in files \ unit :
                                            \E m \in unit : IncludesPlainly(m, g)}}

\* the output group of the component unit is as the merge makes it
MergedAs(unit, ids) ==
    /\ OutputGroup(MinName(ids)).sources = SortNames(unit)
    /\ OutputGroup(MinName(ids)).dependsOn = SortNames(UnitDependsOn(unit))
    /\ OutputGroup(MinName(ids)).subGroups
          = IF Cardinality(ids) > 1 THEN SortNames(ids) ELSE <<>>

\* C22: in merge mode every file's component of the group graph (groups by
\* base name, edges from the plain includes of headers and implementations)
\* comes out as one group: its id is the smallest member id, its sources the
\* sorted files of the members, its depends_on the sorted ids of the groups
\* outside the component that members include, and its sub_groups the sorted
\* member ids when there are several and empty when there is one.
Thm_C22_MergedGroupShape ==
    (sourceGroups.called /\ cycleMode = "merge") =>
        LET units == {Unit(f) : f \in files}
        IN  /\ OutputIds = {MinName(UnitIds(unit)) : unit \in units}
            /\ \A unit \in units : MergedAs(unit, UnitIds(unit))

\* C22, a case: a.c includes b.h and b.h includes a.h, while a.h includes
\* nothing and c.h includes a.h: a and b merge through the implementation
Wit_C22_ImplementationClosesCycle ==
    /\ sourceGroups.called
    /\ cycleMode = "merge"
    /\ files = FileNames
    /\ info["a.c"] = {PlainInclude("b.h")}
    /\ info["b.h"] = {PlainInclude("a.h")}
    /\ info["a.h"] = {}
    /\ info["c.h"] = {PlainInclude("a.h")}
    /\ OutputIds = {"a", "c"}
    /\ OutputGroup("a") = [sources |-> <<"a.c", "a.h", "b.h">>, dependsOn |-> <<>>,
                            subGroups |-> <<"a", "b">>]
    /\ OutputGroup("c") = [sources |-> <<"c.h">>, dependsOn |-> <<"a">>,
                            subGroups |-> <<>>]

====
